---- MODULE Spec2Model ----
(***************************************************************************)
(* A model of the lifetimes estimation engine (src/lifetimes/estimation.py)*)
(* and of its simulation-based validator (src/lifetimes/validation.py).    *)
(*                                                                         *)
(* Six state machines share the module:                                    *)
(*   SpecNLL   the likelihood evaluators, as pure functions of drawn inputs*)
(*   Spec      one fitter instance: construction, fit, derived quantities  *)
(*   SpecGoF   goodness_of_test, statement by statement                    *)
(*   SpecSplit split_dataset, row by row                                   *)
(*   SpecPar   two fitter instances, their fit calls interleaved           *)
(*   SpecFn    the static derived-quantity functions, on drawn arguments   *)
(*                                                                         *)
(* Real arithmetic is exact.  A finite objective is a linear combination,  *)
(* with integer coefficients, of logarithms of primes (and of the terms    *)
(* that have no closed form, kept as symbols); the logarithms of distinct  *)
(* primes are linearly independent over the rationals, so two objectives   *)
(* are equal as reals exactly when their coefficient maps are equal.       *)
(* IEEE infinities and NaN are explicit.                                   *)
(***************************************************************************)
EXTENDS Integers, Sequences, FiniteSets, TLC

VARIABLES
    \* ---- SpecNLL: one evaluation of a _negative_log_likelihood
    family,         \* which evaluator is called
    params,         \* the parameter vector handed to it
    rows,           \* the data vectors, one tuple per row
    N,              \* the weight vector N, or None
    penalizer_coef, \* the penalizer coefficient
    jac,            \* BG/BB only: the analytic-gradient mode
    nll_pc,         \* "call" before the evaluation, "done" after
    nll_ret,        \* the returned objective
    \* ---- Spec: one fitter instance and the calls made on it
    cls,            \* the class of the instance
    self,           \* the instance's own attributes (its __dict__)
    pc,             \* "idle", inside a call, or "returned"
    frame,          \* the arguments and locals of the call in progress
    ret,            \* how the last call ended: a return or a raise
    fit_map,        \* the name-to-value mapping made by the last successful fit
    \* ---- SpecGoF: one call of goodness_of_test
    g_pc,           \* the statement goodness_of_test is at
    g_in,           \* its arguments
    g_n_ll,         \* the observed objective n_ll
    g_n_lls,        \* the simulated objectives n_lls
    g_bounds,       \* <<lwr, upr>>
    g_ret,          \* the returned decision
    g_heap,         \* the fitter instances: 0 is fitter, i the current_fitter of iteration i
    g_trace,        \* what each objective is the value of: n_ll first, then n_lls
    \* ---- SpecSplit: one call of split_dataset
    s_pc,           \* the statement split_dataset is at
    s_N,            \* the column N of data
    s_i,            \* the row the outer loop is at
    s_left,         \* the iterations left of the inner loop, one per unit of weight
    s_test_N,       \* the list test_N
    s_train_N,      \* the list train_N
    s_ret,          \* the returned pair train_data, test_data
    \* ---- SpecPar: fit calls on two instances, interleaved
    p_class,        \* the attributes of the class BaseFitter
    p_inst,         \* the attributes of each instance
    p_pc,           \* where each instance's fit call is at
    p_frame,        \* the arguments and locals of each call
    \* ---- SpecFn: one call of a derived-quantity function
    d_fn,           \* the function called
    d_args,         \* its arguments
    d_pc,           \* "call" before the call, "done" after
    d_ret           \* how the call ended

nll_vars == <<family, params, rows, N, penalizer_coef, jac, nll_pc, nll_ret>>
fit_vars == <<cls, self, pc, frame, ret, fit_map>>
gof_vars == <<g_pc, g_in, g_n_ll, g_n_lls, g_bounds, g_ret, g_heap, g_trace>>
split_vars == <<s_pc, s_N, s_i, s_left, s_test_N, s_train_N, s_ret>>
par_vars == <<p_class, p_inst, p_pc, p_frame>>
fn_vars == <<d_fn, d_args, d_pc, d_ret>>
vars == <<nll_vars, fit_vars, gof_vars, split_vars, par_vars, fn_vars>>

\* the variables of a state machine that is not the one running
NoEvaluation ==
    /\ family = "none" /\ params = <<>> /\ rows = <<>> /\ N = <<>>
    /\ penalizer_coef = 0 /\ jac = FALSE /\ nll_pc = "off" /\ nll_ret = <<>>
NoFitter ==
    /\ cls = "none" /\ self = <<>> /\ pc = "off"
    /\ frame = <<>> /\ ret = <<>> /\ fit_map = <<>>
NoValidation ==
    /\ g_pc = "off" /\ g_in = <<>> /\ g_n_ll = <<>>
    /\ g_n_lls = <<>> /\ g_bounds = <<>> /\ g_ret = <<>>
    /\ g_heap = <<>> /\ g_trace = <<>>
NoSplit ==
    /\ s_pc = "off" /\ s_N = <<>> /\ s_i = 0 /\ s_left = 0
    /\ s_test_N = <<>> /\ s_train_N = <<>> /\ s_ret = <<>>
NoInterleaving ==
    /\ p_class = <<>> /\ p_inst = <<>> /\ p_pc = <<>> /\ p_frame = <<>>
NoFunction ==
    /\ d_fn = "none" /\ d_args = <<>> /\ d_pc = "off" /\ d_ret = <<>>

(***************************************************************************)
(* Bounds of the model.                                                    *)
(***************************************************************************)
MaxParam  == 2      \* parameter coordinates range over -1 .. MaxParam
MaxT      == 2      \* ages (T) range over 0 .. MaxT
MaxXc     == 1      \* frequency_before_conversion ranges over 0 .. MaxXc
MaxMon    == 2      \* monetary values range over 0 .. MaxMon
MaxWeight == 2      \* row weights range over 1 .. MaxWeight
MaxCoef   == 1      \* penalizer_coef is 0 or MaxCoef
C0Den     == 2      \* the mixture weight c0 ranges over the multiples of 1/C0Den

\* an optional weight vector: None, or the vector given
NoWeights  == [given |-> FALSE, w |-> <<>>]
Weights(w) == [given |-> TRUE, w |-> w]

(***************************************************************************)
(* Exact arithmetic: the rationals, logarithms, IEEE values and dual        *)
(* numbers that stand for the floating-point operations of numpy.          *)
(***************************************************************************)
RECURSIVE GCD(_, _)
GCD(a, b) == IF b = 0 THEN (IF a < 0 THEN -a ELSE a) ELSE GCD(b, a % b)

\* a rational number n/d in lowest terms, d > 0
Rat(n, d) ==
    LET g == GCD(n, d) IN <<n \div g, d \div g>>

RAdd(p, q) ==
    LET g == GCD(p[2], q[2])
    IN  Rat(p[1] * (q[2] \div g) + q[1] * (p[2] \div g), p[2] * (q[2] \div g))

RMul(p, q) ==
    LET g1 == GCD(p[1], q[2])
        g2 == GCD(q[1], p[2])
    IN  Rat((p[1] \div g1) * (q[1] \div g2), (p[2] \div g2) * (q[2] \div g1))

RInv(p) == IF p[1] < 0 THEN <<-p[2], -p[1]>> ELSE <<p[2], p[1]>>

RDiv(p, q) == RMul(p, RInv(q))

RECURSIVE RPow(_, _)
RPow(p, k) == IF k = 0 THEN <<1, 1>>
              ELSE IF k < 0 THEN RPow(RInv(p), -k)
              ELSE RMul(p, RPow(p, k - 1))

RECURSIVE RSum(_)
RSum(s) == IF s = <<>> THEN <<0, 1>> ELSE RAdd(Head(s), RSum(Tail(s)))

\* scipy.special.beta at positive integer arguments: (m-1)!(n-1)!/(m+n-1)!
RECURSIVE BetaInt(_, _)
BetaInt(m, n) ==
    IF n = 1 THEN Rat(1, m)
    ELSE RMul(BetaInt(m, n - 1), Rat(n - 1, m + n - 1))

(***************************************************************************)
(* Finite values in the log domain: a map from atoms to non-zero integer   *)
(* coefficients.  The atom <<p>> is log(p) for a prime p; a longer atom is *)
(* a term that has no closed form, named by its arguments.                 *)
(***************************************************************************)
LZero == [a \in {} |-> 0]

LAdd(u, v) ==
    LET D == DOMAIN u \cup DOMAIN v
        s == [a \in D |-> (IF a \in DOMAIN u THEN u[a] ELSE 0)
                          + (IF a \in DOMAIN v THEN v[a] ELSE 0)]
    IN  [a \in {b \in D : s[b] # 0} |-> s[a]]

LScale(k, u) == IF k = 0 THEN LZero ELSE [a \in DOMAIN u |-> k * u[a]]

LAtom(a) == [b \in {a} |-> 1]

RECURSIVE SmallestDiv(_, _)
SmallestDiv(n, k) ==
    IF k * k > n THEN n
    ELSE IF n % k = 0 THEN k
    ELSE SmallestDiv(n, k + 1)

\* log(n) for an integer n >= 1, by its prime factorisation
RECURSIVE LogNat(_)
LogNat(n) ==
    IF n = 1 THEN LZero
    ELSE LET p == SmallestDiv(n, 2) IN LAdd(LAtom(<<p>>), LogNat(n \div p))

\* exp of a log-domain value that holds primes only: a positive rational
RECURSIVE LExpOver(_, _)
LExpOver(u, D) ==
    IF D = {} THEN <<1, 1>>
    ELSE LET a == CHOOSE b \in D : TRUE
         IN  RMul(RPow(<<a[1], 1>>, u[a]), LExpOver(u, D \ {a}))

LExp(u) == LExpOver(u, DOMAIN u)

(***************************************************************************)
(* IEEE values: a finite value, +infinity, -infinity or NaN.               *)
(***************************************************************************)
Fin(u) == [k |-> "fin", v |-> u]
PInf   == [k |-> "pinf", v |-> LZero]
NInf   == [k |-> "ninf", v |-> LZero]
NaN    == [k |-> "nan", v |-> LZero]
EZero  == Fin(LZero)

\* the value of a result variable before the call returns
NotReturned == [k |-> "none", v |-> LZero]

EAdd(a, b) ==
    IF a.k = "nan" \/ b.k = "nan" THEN NaN
    ELSE IF a.k = "fin" /\ b.k = "fin" THEN Fin(LAdd(a.v, b.v))
    ELSE IF a.k = "fin" THEN b
    ELSE IF b.k = "fin" THEN a
    ELSE IF a.k = b.k THEN a
    ELSE NaN

ENeg(a) ==
    IF a.k = "fin" THEN Fin(LScale(-1, a.v))
    ELSE IF a.k = "pinf" THEN NInf
    ELSE IF a.k = "ninf" THEN PInf
    ELSE NaN

ESub(a, b) == EAdd(a, ENeg(b))

\* the product of the integer c and a, as IEEE computes it (0 * inf is NaN)
EScale(c, a) ==
    IF a.k = "nan" THEN NaN
    ELSE IF a.k = "fin" THEN Fin(LScale(c, a.v))
    ELSE IF c = 0 THEN NaN
    ELSE IF c > 0 THEN a
    ELSE ENeg(a)

RECURSIVE ESum(_)
ESum(s) == IF s = <<>> THEN EZero ELSE EAdd(Head(s), ESum(Tail(s)))

\* numpy.log of the rational q
ELog(q) ==
    IF q[1] > 0 THEN Fin(LAdd(LogNat(q[1]), LScale(-1, LogNat(q[2]))))
    ELSE IF q[1] = 0 THEN NInf
    ELSE NaN

ELogInt(n) == ELog(<<n, 1>>)

\* scipy.special.gammaln at an integer: log((n-1)!), +infinity at the poles
RECURSIVE LogFact(_)
LogFact(n) == IF n <= 1 THEN LZero ELSE LAdd(LogNat(n), LogFact(n - 1))

EGammaln(n) == IF n <= 0 THEN PInf ELSE Fin(LogFact(n - 1))


(***************************************************************************)
(* Helpers shared by the evaluators.                                       *)
(***************************************************************************)
\* numpy: npany(asarray(params) <= 0.)
AnyNonPositive(ps) == \E i \in 1..Len(ps) : ps[i] <= 0

\* numpy: log(params).sum()
SumLogParams(ps) == ESum([i \in 1..Len(ps) |-> ELogInt(ps[i])])

\* penalizer_coef * log(params).sum()
PenalizerTerm(coef, ps) == EScale(coef, SumLogParams(ps))

\* a faulty variant of NegWeightedSum: the weights are not applied
NegWeightedSum_Unweighted(llj, w) == ENeg(ESum(llj))

\* -(llj * N).sum() when N is given, -llj.sum() otherwise
NegWeightedSum(llj, w) ==
    IF w.given
    THEN ENeg(ESum([j \in 1..Len(llj) |-> EScale(w.w[j], llj[j])]))
    ELSE ENeg(ESum(llj))

(***************************************************************************)
(* GammaGammaFitter._negative_log_likelihood; a row is <<x, m>>.           *)
(***************************************************************************)
GammaGammaGuard(ps) == \E i \in 1..Len(ps) : ps[i] < 0

GammaGammaValue(ps, row) ==
    LET p == ps[1]
        q == ps[2]
        v == ps[3]
        x == row[1]
        m == row[2]
    IN  ESum(<< EGammaln(p * x + q),
                ENeg(EGammaln(p * x)),
                ENeg(EGammaln(q)),
                EScale(q, ELogInt(v)),
                EScale(p * x - 1, ELogInt(m)),
                EScale(p * x, ELogInt(x)),
                ENeg(EScale(p * x + q, ELogInt(x * m + v))) >>)

GammaGamma_negative_log_likelihood(ps, data, coef) ==
    IF GammaGammaGuard(ps) THEN PInf
    ELSE LET values == [j \in 1..Len(data) |-> GammaGammaValue(ps, data[j])]
         IN  EAdd(ENeg(ESum(values)), PenalizerTerm(coef, ps))

(***************************************************************************)
(* ParetoNBDFitter._negative_log_likelihood; a row is <<x, t_x, T>>.       *)
(* A_2 joins, by logaddexp, a closed-form term and the hazard integral     *)
(* _log_A_0, a difference of Gauss hypergeometric values: it has no closed *)
(* form and is kept as the symbol named by its arguments.                  *)
(***************************************************************************)
ParetoNBD_A_1(ps, row) ==
    LET r == ps[1]
        alpha == ps[2]
        s == ps[3]
        beta == ps[4]
        x == row[1]
    IN  ESum(<< EGammaln(r + x), ENeg(EGammaln(r)),
                EScale(r, ELogInt(alpha)), EScale(s, ELogInt(beta)) >>)

ParetoNBD_A_2(ps, row) ==
    Fin(LAtom(<<ps[1], ps[2], ps[3], ps[4], row[1], row[2], row[3]>>))

ParetoNBD_negative_log_likelihood(ps, data, coef) ==
    IF AnyNonPositive(ps) THEN PInf
    ELSE LET A == [j \in 1..Len(data) |->
                      EAdd(ParetoNBD_A_1(ps, data[j]), ParetoNBD_A_2(ps, data[j]))]
         IN  EAdd(ENeg(ESum(A)), PenalizerTerm(coef, ps))

(***************************************************************************)
(* BetaGeoFitter._negative_log_likelihood; a row is <<x, t_x, T>>.         *)
(***************************************************************************)
\* misc.logsumexp([u, v], b=[1, c]) with c 0 or 1: log(exp(u) + c * exp(v))
LogSumExp2(u, v, c) ==
    ELog(RAdd(LExp(u.v), IF c = 1 THEN LExp(v.v) ELSE <<0, 1>>))

BetaGeo_A_4(ps, row) ==
    LET r == ps[1]
        alpha == ps[2]
        a == ps[3]
        b == ps[4]
        x == row[1]
        recency == row[2]
        raw == ESum(<< ELogInt(a), ENeg(ELogInt(b + x - 1)),
                       ENeg(EScale(r + x, ELogInt(recency + alpha))) >>)
    IN  \* A_4[isnan(A_4) | isinf(A_4)] = 0
        IF raw.k = "fin" THEN raw ELSE EZero

\* (a faulty variant of the row term first: A_4 is always included)
BetaGeoRow_Unmasked(ps, row) ==
    LET r == ps[1]
        alpha == ps[2]
        a == ps[3]
        b == ps[4]
        x == row[1]
        T == row[3]
        A_1 == ESum(<< EGammaln(r + x), ENeg(EGammaln(r)), EScale(r, ELogInt(alpha)) >>)
        A_2 == ESum(<< EGammaln(a + b), EGammaln(b + x),
                       ENeg(EGammaln(b)), ENeg(EGammaln(a + b + x)) >>)
        A_3 == ENeg(EScale(r + x, ELogInt(alpha + T)))
    IN  ESum(<< A_1, A_2, LogSumExp2(A_3, BetaGeo_A_4(ps, row), 1) >>)

BetaGeoRow(ps, row) ==
    LET r == ps[1]
        alpha == ps[2]
        a == ps[3]
        b == ps[4]
        x == row[1]
        T == row[3]
        A_1 == ESum(<< EGammaln(r + x), ENeg(EGammaln(r)), EScale(r, ELogInt(alpha)) >>)
        A_2 == ESum(<< EGammaln(a + b), EGammaln(b + x),
                       ENeg(EGammaln(b)), ENeg(EGammaln(a + b + x)) >>)
        A_3 == ENeg(EScale(r + x, ELogInt(alpha + T)))
        d   == IF x > 0 THEN 1 ELSE 0
    IN  ESum(<< A_1, A_2, LogSumExp2(A_3, BetaGeo_A_4(ps, row), d) >>)

BetaGeo_negative_log_likelihood(ps, data, coef) ==
    IF AnyNonPositive(ps) THEN PInf
    ELSE EAdd(ENeg(ESum([j \in 1..Len(data) |-> BetaGeoRow(ps, data[j])])),
              PenalizerTerm(coef, ps))

(***************************************************************************)
(* ModifiedBetaGeoFitter._negative_log_likelihood; a row is <<x, t_x, T>>. *)
(***************************************************************************)
ModifiedBetaGeoRow(ps, row) ==
    LET r == ps[1]
        alpha == ps[2]
        a == ps[3]
        b == ps[4]
        x == row[1]
        recency == row[2]
        T == row[3]
        A_1 == ESum(<< EGammaln(r + x), ENeg(EGammaln(r)), EScale(r, ELogInt(alpha)) >>)
        A_2 == ESum(<< EGammaln(a + b), EGammaln(b + x + 1),
                       ENeg(EGammaln(b)), ENeg(EGammaln(a + b + x + 1)) >>)
        A_3 == ENeg(EScale(r + x, ELogInt(alpha + T)))
        A_4 == ESum(<< ELogInt(a), ENeg(ELogInt(b + x)),
                       EScale(r + x, ESub(ELogInt(alpha + T), ELogInt(alpha + recency))) >>)
    IN  \* log(exp(A_4) + 1.)
        ESum(<< A_1, A_2, A_3, ELog(RAdd(LExp(A_4.v), <<1, 1>>)) >>)

ModifiedBetaGeo_negative_log_likelihood(ps, data, coef) ==
    IF AnyNonPositive(ps) THEN PInf
    ELSE EAdd(ENeg(ESum([j \in 1..Len(data) |-> ModifiedBetaGeoRow(ps, data[j])])),
              PenalizerTerm(coef, ps))

(***************************************************************************)
(* BGBBFitter._negative_log_likelihood, vector input; a row is             *)
(* <<x, t_x, T>>.  In gradient mode the function returns the pair          *)
(* (ll, d_ll); the model keeps the objective, its first component.         *)
(***************************************************************************)
BGBB_Lj(ps, row) ==
    LET a == ps[1]
        b == ps[2]
        g == ps[3]
        d == ps[4]
        x == row[1]
        tx == row[2]
        T == row[3]
        denominator == RMul(BetaInt(a, b), BetaInt(g, d))
        max_i == T - tx - 1
        numerator ==
            RAdd(RMul(BetaInt(a + x, b + T - x), BetaInt(g, d + T)),
                 RSum([i1 \in 1..(max_i + 1) |->
                          RMul(BetaInt(a + x, b + tx - x + (i1 - 1)),
                               BetaInt(g + 1, d + tx + (i1 - 1)))]))
    IN  RDiv(numerator, denominator)

BGBB_ll(ps, data, w) ==
    NegWeightedSum([j \in 1..Len(data) |-> ELog(BGBB_Lj(ps, data[j]))], w)

BGBB_negative_log_likelihood(ps, data, coef, w, jacMode) ==
    IF AnyNonPositive(ps) THEN PInf
    ELSE IF jacMode = FALSE
         THEN EAdd(BGBB_ll(ps, data, w), PenalizerTerm(coef, ps))
         ELSE BGBB_ll(ps, data, w)

(***************************************************************************)
(* BGBBBGFitter._negative_log_likelihood; a row is <<x, t_x, T, xc>>.      *)
(***************************************************************************)
Bool01(c) == IF c THEN 1 ELSE 0

SessionRows(data) == [j \in 1..Len(data) |-> <<data[j][1], data[j][2], data[j][3]>>]

\* (a faulty variant of the conversion term first: the mask is always 1)
BGBBBG_purchase_term_NoMask(ps, row) ==
    RDiv(BetaInt(ps[5] + 1, ps[6] + row[4]), BetaInt(ps[5], ps[6]))

BGBBBG_purchase_term(ps, row) ==
    LET e == ps[5]
        z == ps[6]
        x == row[1]
        xc == row[4]
        mask == Bool01(x >= xc)
    IN  RDiv(BetaInt(e + mask, z + xc), BetaInt(e, z))

BGBBBG_negative_log_likelihood(ps, data, coef, w) ==
    IF AnyNonPositive(ps) THEN PInf
    ELSE LET ll_vector == [j \in 1..Len(data) |-> ELog(BGBBBG_purchase_term(ps, data[j]))]
             sub_params == <<ps[1], ps[2], ps[3], ps[4]>>
         IN  EAdd(NegWeightedSum(ll_vector, w),
                  BGBB_negative_log_likelihood(sub_params, SessionRows(data), coef, w, FALSE))

(***************************************************************************)
(* BGBBBGExtFitter._negative_log_likelihood; a row is <<x, t_x, T, xc>>.   *)
(* The seventh parameter, the mixture weight c0, is ps[7] / C0Den.         *)
(***************************************************************************)
\* log of the purchase term.  beta(e + mask, z + xc - 1) is infinite when
\* its second argument is 0; the product with mask3 = 0 is then NaN.
BGBBBGExt_ll_purchase(ps, row) ==
    LET e == ps[5]
        z == ps[6]
        c0 == Rat(ps[7], C0Den)
        x == row[1]
        xc == row[4]
        mask == Bool01(x >= xc)
    IN  IF z + xc - 1 <= 0 THEN NaN
        ELSE IF xc = 0 THEN ELog(c0)
        ELSE ELog(RMul(RAdd(<<1, 1>>, <<-c0[1], c0[2]>>),
                       RDiv(BetaInt(e + mask, z + xc - 1), BetaInt(e, z))))

\* (a faulty variant first: it lets the mixture weight 1 through)
BGBBBGExt_OpenGuard(ps, data, coef, w) ==
    IF AnyNonPositive(ps) THEN PInf
    ELSE IF ps[7] > C0Den THEN PInf
    ELSE EAdd(NegWeightedSum([j \in 1..Len(data) |-> BGBBBGExt_ll_purchase(ps, data[j])], w),
              BGBB_negative_log_likelihood(<<ps[1], ps[2], ps[3], ps[4]>>,
                                           SessionRows(data), coef, w, FALSE))

BGBBBGExt_negative_log_likelihood(ps, data, coef, w) ==
    IF AnyNonPositive(ps) THEN PInf
    ELSE IF ps[7] >= C0Den THEN PInf
    ELSE LET ll_vector == [j \in 1..Len(data) |-> BGBBBGExt_ll_purchase(ps, data[j])]
             sub_params == <<ps[1], ps[2], ps[3], ps[4]>>
         IN  EAdd(NegWeightedSum(ll_vector, w),
                  BGBB_negative_log_likelihood(sub_params, SessionRows(data), coef, w, FALSE))

(***************************************************************************)
(* BGFitter._negative_log_likelihood, vector input; a row is <<x, T>>.     *)
(***************************************************************************)
RECURSIVE SumSeq(_)
SumSeq(s) == IF s = <<>> THEN 0 ELSE Head(s) + SumSeq(Tail(s))

BG_Ntot(data, w) == IF w.given THEN SumSeq(w.w) ELSE Len(data)

BG_llj(ps, row) ==
    LET a == ps[1]
        b == ps[2]
        x == row[1]
        T == row[2]
        dead_ones_to_add == Bool01(x < T)
    IN  ELog(BetaInt(a + dead_ones_to_add, b + x))

BG_negative_log_likelihood(ps, data, coef, w) ==
    IF ps[1] <= 0 \/ ps[2] <= 0 THEN PInf
    ELSE ESum(<< NegWeightedSum([j \in 1..Len(data) |-> BG_llj(ps, data[j])], w),
                 EScale(BG_Ntot(data, w), ELog(BetaInt(ps[1], ps[2]))),
                 PenalizerTerm(coef, ps) >>)


(***************************************************************************)
(* SpecNLL: the inputs of one evaluation are drawn by NLLInit, and one     *)
(* action per evaluator applies it.                                        *)
(***************************************************************************)
Families == {"GammaGamma", "ParetoNBD", "BetaGeo", "ModifiedBetaGeo",
             "BGBB", "BGBBBG", "BGBBBGExt", "BG"}

WeightedFamilies == {"BGBB", "BGBBBG", "BGBBBGExt", "BG"}

NumParams(f) ==
    CASE f = "GammaGamma" -> 3
      [] f \in {"ParetoNBD", "BetaGeo", "ModifiedBetaGeo", "BGBB"} -> 4
      [] f = "BGBBBG" -> 6
      [] f = "BGBBBGExt" -> 7
      [] f = "BG" -> 2

\* vectors of length p whose coordinates are all v, but for at most one
TwoValued(p, V, W) ==
    {[i \in 1..p |-> IF i = k THEN w ELSE v] : v \in V, k \in 1..p, w \in W}

AnyParams(f) == TwoValued(NumParams(f), 1..MaxParam, -1..MaxParam)

\* two feasible vectors: all coordinates 1, and 1, 2, .. MaxParam in a cycle
CycleParams(p) == [i \in 1..p |-> ((i - 1) % MaxParam) + 1]

FeasibleParams(f) ==
    LET p == NumParams(f)
        Q == {[i \in 1..p |-> 1], CycleParams(p)}
    IN  IF f = "BGBBBGExt" THEN {q \in Q : q[7] < C0Den} ELSE Q

\* histories <<x, t_x, T>> of a discrete or continuous repeat-purchase model
HistoryRows ==
    {<<x, tx, T>> \in (0..MaxT) \X (0..MaxT) \X (0..MaxT) :
        x <= tx /\ tx <= T /\ ((x = 0) <=> (tx = 0))}

RowsOf(f) ==
    CASE f = "GammaGamma" -> (0..MaxT) \X (0..MaxMon)
      [] f \in {"ParetoNBD", "BetaGeo", "ModifiedBetaGeo", "BGBB"} -> HistoryRows
      [] f \in {"BGBBBG", "BGBBBGExt"} ->
            {<<r[1], r[2], r[3], xc>> : r \in HistoryRows, xc \in 0..MaxXc}
      [] f = "BG" -> {<<x, T>> \in (0..MaxT) \X (0..MaxT) : x <= T}

\* data vectors of one row, or of two: any row, then a row of frequency 0
DataOf(S) ==
    {<<r>> : r \in S} \cup {<<r, u>> : r \in S, u \in {v \in S : v[1] = 0}}

\* no weights, or weights that are all 1 but for at most one
WeightsOf(f, data) ==
    IF f \in WeightedFamilies
    THEN {NoWeights} \cup {Weights(w) : w \in TwoValued(Len(data), {1}, 1..MaxWeight)}
    ELSE {NoWeights}

\* evaluations at any parameter vector, on a single history
GuardInputs(f) ==
    {<<ps, <<r>>, NoWeights>> : ps \in AnyParams(f), r \in RowsOf(f)}

\* evaluations at feasible parameter vectors, on weighted data
ObjectiveInputs(f) ==
    {<<ps, x[1], x[2]>> :
        ps \in FeasibleParams(f),
        x \in UNION {{<<d, w>> : w \in WeightsOf(f, d)} : d \in DataOf(RowsOf(f))}}

NLLInit ==
    /\ family \in Families
    /\ \E inp \in GuardInputs(family) \cup ObjectiveInputs(family) :
          /\ params = inp[1]
          /\ rows = inp[2]
          /\ N = inp[3]
    /\ penalizer_coef \in {0, MaxCoef}
    /\ jac \in (IF family = "BGBB" THEN BOOLEAN ELSE {FALSE})
    /\ nll_pc = "call"
    /\ nll_ret = NotReturned
    /\ NoFitter
    /\ NoValidation
    /\ NoSplit /\ NoInterleaving /\ NoFunction

\* the call f._negative_log_likelihood(ps, data..., coef[, w[, jacMode]])
Objective(f, ps, data, coef, w, jacMode) ==
    CASE f = "GammaGamma" -> GammaGamma_negative_log_likelihood(ps, data, coef)
      [] f = "ParetoNBD" -> ParetoNBD_negative_log_likelihood(ps, data, coef)
      [] f = "BetaGeo" -> BetaGeo_negative_log_likelihood(ps, data, coef)
      [] f = "ModifiedBetaGeo" -> ModifiedBetaGeo_negative_log_likelihood(ps, data, coef)
      [] f = "BGBB" -> BGBB_negative_log_likelihood(ps, data, coef, w, jacMode)
      [] f = "BGBBBG" -> BGBBBG_negative_log_likelihood(ps, data, coef, w)
      [] f = "BGBBBGExt" -> BGBBBGExt_negative_log_likelihood(ps, data, coef, w)
      [] f = "BG" -> BG_negative_log_likelihood(ps, data, coef, w)

Evaluate(f) ==
    /\ nll_pc = "call"
    /\ family = f
    /\ nll_ret' = Objective(f, params, rows, penalizer_coef, N, jac)
    /\ nll_pc' = "done"
    /\ UNCHANGED <<family, params, rows, N, penalizer_coef, jac>>
    /\ UNCHANGED <<fit_vars, gof_vars, split_vars, par_vars, fn_vars>>

NLLNext == \E f \in Families : Evaluate(f)

SpecNLL == NLLInit /\ [][NLLNext]_vars


(***************************************************************************)
(* Claims about the likelihood evaluators (checked under SpecNLL).         *)
(***************************************************************************)
\* the value of parameter i: the mixture weight c0 is ps[7] / C0Den
ParamValue(f, ps, i) == IF f = "BGBBBGExt" /\ i = 7 THEN Rat(ps[i], C0Den) ELSE <<ps[i], 1>>

AllPositive(ps) == \A i \in 1..Len(ps) : ps[i] > 0

FeasibleCall == AllPositive(params) /\ (family = "BGBBBGExt" => params[7] < C0Den)

\* C1: for every model family, _negative_log_likelihood returns +infinity
\* whenever some coordinate of the parameter vector is zero or negative.
C1_NonPositiveGivesInfinity ==
    (nll_pc = "done" /\ ~AllPositive(params)) => nll_ret = PInf

\* C5: for every family and evaluation mode, the returned objective is the
\* unpenalized negative log-likelihood plus penalizer_coef times the sum of
\* log(param_i) over all of the model's parameters.
C5_PenaltyOverAllParams ==
    (nll_pc = "done" /\ FeasibleCall) =>
        nll_ret = EAdd(Objective(family, params, rows, 0, N, jac),
                       EScale(penalizer_coef,
                              ESum([i \in 1..Len(params) |->
                                       ELog(ParamValue(family, params, i))])))

\* the data vectors with row j repeated w[j] times
RECURSIVE Expand(_, _)
Expand(data, w) ==
    IF data = <<>> THEN <<>>
    ELSE [i \in 1..Head(w) |-> Head(data)] \o Expand(Tail(data), Tail(w))

\* C10: for the weighted families, the objective of rows that carry integer
\* weights N is the objective, computed without weights, of the data in
\* which each row is repeated N times (the same IEEE value on both sides).
C10_WeightedEqualsExpanded ==
    (nll_pc = "done" /\ N.given /\ FeasibleCall) =>
        nll_ret = Objective(family, params, Expand(rows, N.w), penalizer_coef, NoWeights, jac)

\* C10 witness: a finite objective of two rows of the extended conversion
\* model, one of them of weight 2 or more.
C10_Witness ==
    /\ nll_pc = "done"
    /\ family = "BGBBBGExt"
    /\ N.given
    /\ Len(rows) = 2
    /\ rows[1] # rows[2]
    /\ N.w[1] >= 2
    /\ N.w[2] = 1
    /\ penalizer_coef > 0
    /\ nll_ret.k = "fin"

\* C14: the extended conversion model's _negative_log_likelihood returns
\* +infinity whenever the mixture weight c0 is 1 or more, the other parameters
\* being positive, whatever the data.
C14_MixtureWeightGuard ==
    (/\ nll_pc = "done"
     /\ family = "BGBBBGExt"
     /\ AllPositive(params)
     /\ params[7] >= C0Den) => nll_ret = PInf

\* C14 witness: an evaluation at c0 = 1 exactly has returned +infinity.
C14_Witness ==
    /\ nll_pc = "done"
    /\ family = "BGBBBGExt"
    /\ AllPositive(params)
    /\ params[7] = C0Den
    /\ nll_ret = PInf

\* C25: in the BG/NBD objective at positive parameters, a row of frequency 0
\* contributes r * log(alpha) - r * log(alpha + T): a finite value, the same
\* at every recency, a and b, the term A_4 being left out of the log-sum-exp;
\* a row of frequency > 0 contributes
\* A_1 + A_2 + log(exp(A_3) + exp(A_4)), the term A_4 included.
C25_AlternateTermMasked ==
    (nll_pc = "done" /\ family = "BetaGeo" /\ AllPositive(params)) =>
        LET r == params[1]
            alpha == params[2]
            a == params[3]
            b == params[4]
            Row(row) ==
                LET x == row[1]
                    A_3 == ENeg(EScale(r + x, ELogInt(alpha + row[3])))
                IN  IF x = 0
                    THEN EAdd(EScale(r, ELogInt(alpha)), A_3)
                    ELSE ESum(<< EGammaln(r + x), ENeg(EGammaln(r)), EScale(r, ELogInt(alpha)),
                                 EGammaln(a + b), EGammaln(b + x),
                                 ENeg(EGammaln(b)), ENeg(EGammaln(a + b + x)),
                                 ELog(RAdd(LExp(A_3.v),
                                           RDiv(Rat(a, b + x - 1),
                                                RPow(<<row[2] + alpha, 1>>, r + x)))) >>)
        IN  /\ nll_ret = EAdd(ENeg(ESum([j \in 1..Len(rows) |-> Row(rows[j])])),
                              PenalizerTerm(penalizer_coef, params))
            /\ \A j \in 1..Len(rows) :
                  rows[j][1] = 0 =>
                      /\ BetaGeoRow(params, rows[j]).k = "fin"
                      /\ \A a2 \in 1..MaxParam, b2 \in 1..MaxParam, rec \in 0..MaxT :
                            BetaGeoRow(<<r, alpha, a2, b2>>, <<0, rec, rows[j][3]>>)
                                = BetaGeoRow(params, rows[j])

\* C25 witness: a finite BG/NBD objective of a repeat buyer and of a customer
\* of frequency 0, at b = 1, where log(b + frequency - 1) is infinite.
C25_Witness ==
    /\ nll_pc = "done"
    /\ family = "BetaGeo"
    /\ AllPositive(params)
    /\ params[4] = 1
    /\ Len(rows) = 2
    /\ rows[1][1] > 0
    /\ rows[2][1] = 0
    /\ nll_ret.k = "fin"

\* C26: at positive parameters the BG/BB/BG objective is the sum over the rows
\* of minus the weight times log(B(e + [x >= xc], z + xc) / B(e, z)), plus the
\* BG/BB objective of the same rows and weights at (a, b, g, d); with e or z
\* zero or negative it is +infinity.
C26_ConversionPlusSessions ==
    (nll_pc = "done" /\ family = "BGBBBG") =>
        LET e == params[5]
            z == params[6]
            Conv(row) == ELog(RDiv(BetaInt(e + Bool01(row[1] >= row[4]), z + row[4]),
                                   BetaInt(e, z)))
            Weight(j) == IF N.given THEN N.w[j] ELSE 1
        IN  /\ AllPositive(params) =>
                nll_ret = EAdd(ENeg(ESum([j \in 1..Len(rows) |->
                                             EScale(Weight(j), Conv(rows[j]))])),
                               BGBB_negative_log_likelihood(
                                   <<params[1], params[2], params[3], params[4]>>,
                                   [j \in 1..Len(rows) |-> <<rows[j][1], rows[j][2], rows[j][3]>>],
                                   penalizer_coef, N, FALSE))
            /\ (e <= 0 \/ z <= 0) => nll_ret = PInf

\* C26 witness: a finite BG/BB/BG objective of two weighted rows, one with
\* fewer sessions than purchases before conversion.
C26_Witness ==
    /\ nll_pc = "done"
    /\ family = "BGBBBG"
    /\ N.given
    /\ Len(rows) = 2
    /\ N.w[1] >= 2
    /\ rows[1][1] < rows[1][4]
    /\ rows[2][1] >= rows[2][4]
    /\ nll_ret.k = "fin"

(***************************************************************************)
(* Spec: one fitter instance, from construction on.  A call is started     *)
(* when the instance is idle and ends in the state "returned", which keeps *)
(* the arguments (frame) and the outcome (ret) until the caller resumes.   *)
(***************************************************************************)

\* ---- Python values
PyNone == [t |-> "None"]
PyFloat(q) == [t |-> "float", v |-> q]
PyDict(m) == [t |-> "dict", m |-> m]

\* ---- how a call ends
Return(v) == [kind |-> "return", val |-> v]
Raise(e) == [kind |-> "raise", val |-> e]
NoOutcome == [kind |-> "none", val |-> ""]
NoFrame == [op |-> "none"]

NotFitError == "ValueError: Model has not been fit yet. Please call the .fit method first."
DimensionError == "ValueError: Covariance matrix: wrong dimensions."

\* ---- attribute lookup: the instance's own attributes, then the class's
ClassAttrs == [params_ |-> PyNone, data |-> PyNone]
hasattr(obj, a) == a \in DOMAIN obj \/ a \in DOMAIN ClassAttrs
getattr(obj, a) == IF a \in DOMAIN obj THEN obj[a] ELSE ClassAttrs[a]
setattr(obj, a, v) == [b \in DOMAIN obj \cup {a} |-> IF b = a THEN v ELSE obj[b]]

ConversionClasses == {"BGBBBG", "BGBBBGExt"}
ScaledClasses == {"BetaGeo", "ModifiedBetaGeo"}

\* the instance after __init__(penalizer_coef = coef)
Construct(c, coef) ==
    IF c \in ConversionClasses
    THEN [penalizer_coef |-> coef, params_ |-> PyNone]
    ELSE [penalizer_coef |-> coef]

ParamNames(c) ==
    CASE c = "GammaGamma" -> <<"p", "q", "v">>
      [] c = "ParetoNBD" -> <<"r", "alpha", "s", "beta">>
      [] c \in ScaledClasses -> <<"r", "alpha", "a", "b">>
      [] c = "BGBB" -> <<"alpha", "beta", "gamma", "delta">>
      [] c = "BGBBBG" -> <<"alpha", "beta", "gamma", "delta", "epsilon", "zeta">>
      [] c = "BGBBBGExt" -> <<"alpha", "beta", "gamma", "delta", "epsilon", "zeta", "c0">>
      [] c = "BG" -> <<"alpha", "beta">>

Columns(c) ==
    CASE c = "GammaGamma" -> <<"frequency", "monetary_value">>
      [] c \in {"ParetoNBD", "BetaGeo", "ModifiedBetaGeo", "BGBB"} -> <<"frequency", "recency", "T">>
      [] c = "BGBBBG" -> <<"frequency", "recency", "T", "frequency_purchases">>
      [] c = "BGBBBGExt" -> <<"frequency", "recency", "T", "frequency_before_conversion">>
      [] c = "BG" -> <<"frequency", "T">>

Generator(c) ==
    CASE c = "ParetoNBD" -> "pareto_nbd_model"
      [] c = "BetaGeo" -> "beta_geometric_nbd_model"
      [] c = "ModifiedBetaGeo" -> "modified_beta_geometric_nbd_model"
      [] c = "BGBB" -> "bgbb_model"
      [] c = "BGBBBG" -> "bgbbbg_model"
      [] c = "BGBBBGExt" -> "bgbbbgext_model"
      [] c = "BG" -> "bgext_model"

\* the dict {names[i]: values[i]}
Zip(names, values) ==
    [n \in {names[i] : i \in 1..Len(names)} |->
        values[CHOOSE i \in 1..Len(names) : names[i] = n]]

\* self._unload_params(*names): how it ends
unload_params(obj, names) ==
    IF ~hasattr(obj, "params_") THEN Raise(NotFitError)
    ELSE LET p == getattr(obj, "params_") IN
         IF p.t # "dict" THEN Raise("TypeError")
         ELSE IF \E i \in 1..Len(names) : names[i] \notin DOMAIN p.m THEN Raise("KeyError")
         ELSE Return("params")

\* ---- bounds of the fit inputs
MaxFitVal  == 1     \* the entries of the data vectors range over -1 .. MaxFitVal
MaxFitRows == 1     \* the data vectors have 1 .. MaxFitRows rows
MaxScale   == 2     \* _scale_time returns one of 1 .. MaxScale

\* the rows of the vectors handed to fit: any values, valid or not
FitRows(c) ==
    LET FitVals == -1..MaxFitVal
    IN
    CASE c \in {"GammaGamma", "BG"} -> FitVals \X FitVals
      [] c \in {"ParetoNBD", "BetaGeo", "ModifiedBetaGeo", "BGBB"} -> FitVals \X FitVals \X FitVals
      [] c \in ConversionClasses -> FitVals \X FitVals \X FitVals \X (0..MaxXc)

\* data vectors: one row, repeated
FitData == [c \in Families |-> {[i \in 1..n |-> r] : r \in FitRows(c), n \in 1..MaxFitRows}]

\* the argument N: None, or a vector of ones of some length, the data's or another
FitWeights ==
    {NoWeights} \cup {Weights([i \in 1..k |-> 1]) : k \in 0..(MaxFitRows + 1)}

\* lifetimes.utils._check_inputs raises: an impossible history, a negative
\* value, or a weight vector of another size than the data
_check_inputs(data, w, with_fbc) ==
    \/ \E j \in 1..Len(data) : data[j][2] > data[j][3]
    \/ \E j \in 1..Len(data) : data[j][1] < 0 \/ data[j][2] < 0 \/ data[j][3] < 0
    \/ w.given /\ Len(w.w) # Len(data)
    \/ with_fbc /\ \E j \in 1..Len(data) : data[j][4] < 0

\* the validation at the head of fit raises
FitRaises(c, data, w) ==
    CASE c = "GammaGamma" -> FALSE
      [] c \in {"ParetoNBD", "BetaGeo", "ModifiedBetaGeo", "BGBB"} ->
            _check_inputs(data, NoWeights, FALSE)
      [] c \in ConversionClasses -> _check_inputs(data, w, TRUE)
      [] c = "BG" ->
            \E j \in 1..Len(data) :
                data[j][1] > data[j][2] \/ data[j][1] < 0 \/ data[j][2] < 0

\* the column T of the data
AgeColumn(c, data) == [j \in 1..Len(data) |-> IF c = "BG" THEN data[j][2] ELSE data[j][3]]

\* reduce(lambda res, el: res + el, [[t] * n for t, n in zip(T, N)], [])
RECURSIVE ZipRepeat(_, _)
ZipRepeat(T, w) ==
    IF T = <<>> \/ w = <<>> THEN <<>>
    ELSE [i \in 1..Head(w) |-> Head(T)] \o ZipRepeat(Tail(T), Tail(w))

\* the ages a fitted model simulates new data at
gen_t(c, data, w) ==
    IF c \in WeightedFamilies /\ w.given
    THEN ZipRepeat(AgeColumn(c, data), w.w)
    ELSE AgeColumn(c, data)

\* numpy evaluates llj * N elementwise when the two shapes broadcast
Broadcasts(m, n) == m = n \/ m = 1 \/ n = 1

\* lifetimes.utils._fit can return: the objective can be evaluated on the data
_fit_returns(c, data, w) ==
    (c \in {"BGBB", "BG"} /\ w.given) => Broadcasts(Len(data), Len(w.w))

\* params_ as fit leaves it, from the vector _fit returned
FittedParams(c, ps, obj) ==
    LET d == Zip(ParamNames(c), ps)
    IN  IF c \in ScaledClasses
        THEN PyDict([d EXCEPT !["alpha"] = RDiv(@, getattr(obj, "_scale").v)])
        ELSE PyDict(d)

\* the objective _fit achieved: the value of the evaluator at ps on the data
\* (BG/NBD and MBG/NBD: with recency and T scaled)
\* by the evaluator self._negative_log_likelihood, looked up on the class of
\* self
Achieved(c, obj, ps, data, w) ==
    [t |-> "float", by |-> c, at |-> ps, on |-> data,
     N |-> IF c \in WeightedFamilies THEN w ELSE NoWeights,
     scale |-> IF c \in ScaledClasses THEN getattr(obj, "_scale").v ELSE <<1, 1>>]

\* ModifiedBetaGeoFitter.fit, after the fit it inherits has returned:
\* self.generate_new_data = lambda size=1: modified_beta_geometric_nbd_model(...)
\* (a faulty variant first, which keeps the binding of the inherited fit)
Rebind_Kept(c, obj, gt) == obj
Rebind(c, obj, gt) ==
    IF c = "ModifiedBetaGeo"
    THEN setattr(obj, "generate_new_data",
                 [t |-> "function", model |-> Generator(c), ts |-> gt,
                  params |-> <<"self._unload_params">>])
    ELSE obj

\* the attributes fit assigns once _fit has returned <<ps, objective>>; the
\* fit of ModifiedBetaGeoFitter runs the statements of BetaGeoFitter.fit
FitAssign(c, obj, data, w, gt, ps) ==
    LET body == IF c = "ModifiedBetaGeo" THEN "BetaGeo" ELSE c
        o1 == setattr(obj, "_negative_log_likelihood_", Achieved(c, obj, ps, data, w))
        o2 == setattr(o1, "params_", FittedParams(c, ps, obj))
        o3 == setattr(o2, "data", [t |-> "DataFrame", columns |-> Columns(c), rows |-> data])
        o4 == IF c = "GammaGamma" THEN o3
              ELSE setattr(o3, "generate_new_data",
                           [t |-> "function", model |-> Generator(body), ts |-> gt,
                            params |-> IF c \in ScaledClasses
                                       THEN <<"self._unload_params">> ELSE ps])
    IN  IF c \in {"ParetoNBD", "BetaGeo", "ModifiedBetaGeo"}
        THEN Rebind(c, setattr(o4, "predict",
                     [t |-> "method", name |-> "conditional_expected_number_of_purchases_up_to_time"]),
                    gt)
        ELSE o4

\* ---- the state after construction
Init ==
    /\ cls \in Families
    /\ self = Construct(cls, 0)
    /\ pc = "idle"
    /\ frame = NoFrame
    /\ ret = NoOutcome
    /\ fit_map = PyNone
    /\ NoEvaluation
    /\ NoValidation
    /\ NoSplit /\ NoInterleaving /\ NoFunction

\* ---- fit(frequency, ..., N): the validation raises
fit_rejected ==
    \E data \in FitData[cls], w \in FitWeights :
        /\ pc = "idle"
        /\ FitRaises(cls, data, w)
        /\ pc' = "returned"
        /\ frame' = [op |-> "fit", data |-> data, N |-> w, self0 |-> self]
        /\ ret' = Raise("ValueError")
        /\ UNCHANGED <<cls, self, fit_map>>
        /\ UNCHANGED <<nll_vars, gof_vars, split_vars, par_vars, fn_vars>>

\* (a faulty variant of the next action, which stores the data before _fit)
fit_calls_fit_StoresFirst ==
    \E data \in FitData[cls], w \in FitWeights :
      \E k \in (IF cls \in ScaledClasses THEN 1..MaxScale ELSE {1}) :
        /\ pc = "idle"
        /\ ~FitRaises(cls, data, w)
        /\ self' = setattr(IF cls \in ScaledClasses
                           THEN setattr(self, "_scale", PyFloat(<<k, 1>>))
                           ELSE self,
                           "data", [t |-> "DataFrame", columns |-> Columns(cls), rows |-> data])
        /\ pc' = "_fit"
        /\ frame' = [op |-> "fit", data |-> data, N |-> w, self0 |-> self]
        /\ UNCHANGED <<cls, ret, fit_map>>
        /\ UNCHANGED <<nll_vars, gof_vars, split_vars, par_vars, fn_vars>>

\* ---- fit: the validation passes and _fit is called
fit_calls_fit ==
    \E data \in FitData[cls], w \in FitWeights :
      \E k \in (IF cls \in ScaledClasses THEN 1..MaxScale ELSE {1}) :
        /\ pc = "idle"
        /\ ~FitRaises(cls, data, w)
        /\ self' = IF cls \in ScaledClasses
                   THEN setattr(self, "_scale", PyFloat(<<k, 1>>))
                   ELSE self
        /\ pc' = "_fit"
        /\ frame' = [op |-> "fit", data |-> data, N |-> w, self0 |-> self]
        /\ UNCHANGED <<cls, ret, fit_map>>
        /\ UNCHANGED <<nll_vars, gof_vars, split_vars, par_vars, fn_vars>>

\* ---- _fit raises: no restart converged, or the objective cannot be evaluated
fit_fails ==
    /\ pc = "_fit"
    /\ pc' = "returned"
    /\ ret' = Raise("_fit")
    /\ UNCHANGED <<cls, self, frame, fit_map>>
    /\ UNCHANGED <<nll_vars, gof_vars, split_vars, par_vars, fn_vars>>

\* ---- _fit returns the parameters and the objective, and fit stores them
fit_returns ==
    \E v \in 1..MaxParam :
        LET ps == [i \in 1..NumParams(cls) |-> <<v, 1>>]
            after == FitAssign(cls, self, frame.data, frame.N,
                               gen_t(cls, frame.data, frame.N), ps)
        IN  /\ pc = "_fit"
            /\ _fit_returns(cls, frame.data, frame.N)
            /\ self' = after
            /\ fit_map' = after.params_
            /\ pc' = "returned"
            /\ ret' = Return("self")
            /\ UNCHANGED <<cls, frame>>
            /\ UNCHANGED <<nll_vars, gof_vars, split_vars, par_vars, fn_vars>>

\* ---- the caller goes on after a return or a raise
resume ==
    /\ pc = "returned"
    /\ pc' = "idle"
    /\ frame' = NoFrame
    /\ ret' = NoOutcome
    /\ UNCHANGED <<cls, self, fit_map>>
    /\ UNCHANGED <<nll_vars, gof_vars, split_vars, par_vars, fn_vars>>

\* ---- the derived quantities: the methods that read the fitted parameters.
\* reads_data: called with its defaults, the method reads self.data first.
QueryOps == [c \in Families |->
    LET all == ParamNames(c)
        four == SubSeq(all, 1, 4)
        Op(name, reads_data, names) == [name |-> name, reads_data |-> reads_data, names |-> names]
    IN  CASE c = "GammaGamma" ->
              {Op("conditional_expected_average_profit", TRUE, all),
               Op("customer_lifetime_value", FALSE, all)}
          [] c = "ParetoNBD" ->
              {Op("conditional_probability_alive", FALSE, all),
               Op("conditional_probability_alive_matrix", TRUE, all),
               Op("conditional_expected_number_of_purchases_up_to_time", FALSE, all),
               Op("expected_number_of_purchases_up_to_time", FALSE, all)}
          [] c \in ScaledClasses ->
              {Op("expected_number_of_purchases_up_to_time", FALSE, all),
               Op("conditional_expected_number_of_purchases_up_to_time", FALSE, all),
               Op("conditional_probability_alive", FALSE, all),
               Op("conditional_probability_alive_matrix", TRUE, all),
               Op("probability_of_n_purchases_up_to_time", FALSE, all)}
          [] c = "BGBB" ->
              {Op("expected_number_of_purchases_up_to_time", FALSE, all),
               Op("limit_number_of_purchases", FALSE, all),
               Op("probability_of_n_purchases_up_to_time", FALSE, all)}
          [] c = "BGBBBG" ->
              {Op("expected_probability_of_converting_at_time", FALSE, all),
               Op("expected_probability_of_converting_within_time", FALSE, all)}
          [] c = "BGBBBGExt" ->
              {Op("expected_probability_of_converting_at_time", FALSE, all),
               Op("expected_probability_of_converting_within_time", FALSE, all),
               Op("expected_number_of_sessions_up_to_time", FALSE, four),
               Op("probability_of_n_sessions_up_to_time", FALSE, four)}
          [] c = "BG" ->
              {Op("expected_number_of_purchases_up_to_time", FALSE, all),
               Op("probability_of_n_purchases_up_to_time", FALSE, all)}]

\* how a derived quantity ends on the instance obj
QueryOutcome(obj, op) ==
    IF op.reads_data /\ getattr(obj, "data").t = "None" THEN Raise("TypeError")
    ELSE LET u == unload_params(obj, op.names)
         IN  IF u.kind = "raise" THEN u ELSE Return("value")

query ==
    \E op \in QueryOps[cls] :
        /\ pc = "idle"
        /\ pc' = "returned"
        /\ frame' = [op |-> op.name, self0 |-> self]
        /\ ret' = QueryOutcome(self, op)
        /\ UNCHANGED <<cls, self, fit_map>>
        /\ UNCHANGED <<nll_vars, gof_vars, split_vars, par_vars, fn_vars>>

\* ---- the error propagation from a covariance matrix C, given by its shape:
\* the lengths of its rows
CovClasses == {"ParetoNBD", "BGBB", "BGBBBGExt", "BG"}

CovOp(c) ==
    IF c = "BGBBBGExt" THEN "expected_number_of_sessions_up_to_time_error"
    ELSE "expected_number_of_purchases_up_to_time_error"

\* the size p the function asks of C
CovSize(c) == IF c = "BG" THEN 2 ELSE 4

\* shapes around p x p: no row, or p - 1 .. p + 1 rows of length p but for at
\* most one of them
Shapes == [c \in CovClasses |->
    LET p == CovSize(c)
    IN  {<<>>} \cup UNION {TwoValued(n, {p}, (p - 1)..(p + 1)) : n \in (p - 1)..(p + 1)}]

\* len(C) != p or len(C[0]) != p
WrongDimensions(C, p) == Len(C) # p \/ C[1] # p

\* np.matrix(C) is a p x p matrix
IsMatrix(C, p) == Len(C) = p /\ \A i \in 1..p : C[i] = p

\* after the parameters are unloaded and the dimensions found right
CovTail(C, p) == IF IsMatrix(C, p) THEN Return("value") ELSE Raise("ValueError: numpy")

CovOutcome(c, obj, t, C) ==
    LET p == CovSize(c)
        u == unload_params(obj, SubSeq(ParamNames(c), 1, p))
    IN  CASE c = "ParetoNBD" ->
              IF WrongDimensions(C, p) THEN Raise(DimensionError)
              ELSE IF u.kind = "raise" THEN u
              ELSE CovTail(C, p)
          [] c \in {"BGBB", "BGBBBGExt"} ->
              IF u.kind = "raise" THEN u
              ELSE IF WrongDimensions(C, p) THEN Raise(DimensionError)
              ELSE CovTail(C, p)
          [] c = "BG" ->
              IF u.kind = "raise" THEN u
              ELSE IF t = 0 THEN Return("0")
              ELSE IF WrongDimensions(C, p) THEN Raise(DimensionError)
              ELSE CovTail(C, p)

covariance_error ==
    \E t \in {0, MaxT}, C \in (IF cls \in CovClasses THEN Shapes[cls] ELSE {}) :
        /\ pc = "idle"
        /\ cls \in CovClasses
        /\ pc' = "returned"
        /\ frame' = [op |-> CovOp(cls), t |-> t, C |-> C, self0 |-> self]
        /\ ret' = CovOutcome(cls, self, t, C)
        /\ UNCHANGED <<cls, self, fit_map>>
        /\ UNCHANGED <<nll_vars, gof_vars, split_vars, par_vars, fn_vars>>

\* ---- the error estimated from a list of parameter vectors (the conversion
\* models): every vector in turn is made the instance's params_
MaxList == 2        \* params_list has 0 .. MaxList vectors

ListOps ==
    {"expected_probability_of_converting_at_time_error",
     "expected_probability_of_converting_within_time_error"}

\* the vectors of a params_list are of the model's size, or one entry short
ParamsLists == [c \in ConversionClasses |->
    LET ListEntries == {[i \in 1..n |-> <<v, 1>>] :
                           n \in {NumParams(c) - 1, NumParams(c)}, v \in 1..MaxParam}
    IN  UNION {[1..n -> ListEntries] : n \in 0..MaxList}]

\* initial_params = self.params_.copy(); values = []
list_error_begin ==
    \E op \in ListOps, t \in {0, MaxT},
       params_list \in (IF cls \in ConversionClasses THEN ParamsLists[cls] ELSE {}) :
        LET p == getattr(self, "params_")
        IN  /\ pc = "idle"
            /\ cls \in ConversionClasses
            /\ IF p.t = "None"
               THEN /\ pc' = "returned"
                    /\ ret' = Raise("AttributeError")
                    /\ frame' = [op |-> op, t |-> t, self0 |-> self]
               ELSE /\ pc' = "loop"
                    /\ ret' = ret
                    /\ frame' = [op |-> op, t |-> t, self0 |-> self,
                                 initial_params |-> p, rest |-> params_list]
            /\ UNCHANGED <<cls, self, fit_map>>
            /\ UNCHANGED <<nll_vars, gof_vars, split_vars, par_vars, fn_vars>>

\* one iteration: self.params_ = {...params[0] ...}; value = self.<quantity>(t)
list_error_iterate ==
    /\ pc = "loop"
    /\ frame.rest # <<>>
    /\ LET ps == Head(frame.rest)
       IN  IF Len(ps) < NumParams(cls)
           THEN /\ pc' = "returned"
                /\ ret' = Raise("IndexError")
                /\ UNCHANGED <<self, frame>>
           ELSE /\ self' = setattr(self, "params_", PyDict(Zip(ParamNames(cls), ps)))
                /\ frame' = [frame EXCEPT !.rest = Tail(@)]
                /\ UNCHANGED <<pc, ret>>
    /\ UNCHANGED <<cls, fit_map>>
    /\ UNCHANGED <<nll_vars, gof_vars, split_vars, par_vars, fn_vars>>

\* error = np.std(values); self.params_ = initial_params; return error
list_error_end ==
    /\ pc = "loop"
    /\ frame.rest = <<>>
    /\ self' = setattr(self, "params_", frame.initial_params)
    /\ pc' = "returned"
    /\ ret' = Return("error")
    /\ UNCHANGED <<cls, frame, fit_map>>
    /\ UNCHANGED <<nll_vars, gof_vars, split_vars, par_vars, fn_vars>>

Next ==
    \/ fit_rejected
    \/ fit_calls_fit
    \/ fit_fails
    \/ fit_returns
    \/ query
    \/ covariance_error
    \/ list_error_begin
    \/ list_error_iterate
    \/ list_error_end
    \/ resume

Spec == Init /\ [][Next]_vars

\* a call of fit has got past its validation, or has ended
FitCall == pc \in {"_fit", "returned"} /\ frame.op = "fit"

\* the call in progress, or just ended, is of a derived quantity or of an
\* error propagation
DerivedCall == pc \in {"loop", "returned"} /\ frame.op # "fit"

\* fit has succeeded on the instance at least once
Fitted == fit_map # PyNone

\* C2: a derived quantity or an error propagation asked of an instance on
\* which fit has never succeeded ends in the explicit 'Model has not been fit
\* yet' error of _unload_params, and in no other failure.
C2_UnfittedRaisesNotFit ==
    (pc = "returned" /\ DerivedCall /\ ~Fitted) => ret = Raise(NotFitError)

\* C6: the error propagation from a covariance matrix raises whenever C is
\* not exactly p x p, at every horizon t, t = 0 included, and for every
\* shape, the ragged ones included (any raise is taken for a dimension error).
C6_WrongShapeRaises ==
    (/\ pc = "returned"
     /\ cls \in {"ParetoNBD", "BGBB", "BG"}
     /\ frame.op = CovOp(cls)
     /\ Fitted
     /\ ~IsMatrix(frame.C, CovSize(cls))) => ret.kind = "raise"

\* C7: once fit has succeeded, params_ is the mapping the fit produced, after
\* every derived quantity and error propagation and at every point while one
\* is executing, a raise partway through included.
C7_ParamsNeverMutated ==
    Fitted => getattr(self, "params_") = fit_map

\* the input the fit entry points are to reject: recency > age, a negative
\* value, or (the discrete-churn model) frequency > age
InvalidInput(c, data) ==
    \E j \in 1..Len(data) :
        \/ \E i \in 1..Len(data[j]) : data[j][i] < 0
        \/ c \notin {"GammaGamma", "BG"} /\ data[j][2] > data[j][3]
        \/ c = "BG" /\ data[j][1] > data[j][2]

\* the call of fit has raised a validation error without calling _fit, and
\* has left the instance as it was
RejectedUntouched == pc = "returned" /\ ret = Raise("ValueError") /\ self = frame.self0

\* C8: every fit entry point raises on invalid input before _fit is called,
\* and leaves params_, data and the achieved objective as they were.
C8_InvalidInputRejected ==
    (FitCall /\ InvalidInput(cls, frame.data)) => RejectedUntouched

\* C9: a fit call of a fitter that uses N, with N of another length than the
\* data vectors, is rejected before _fit is called; it is never accepted.
C9_WeightMismatchRejected ==
    (/\ FitCall
     /\ cls \in WeightedFamilies
     /\ frame.N.given
     /\ Len(frame.N.w) # Len(frame.data)) => RejectedUntouched

FitResultAttrs == {"params_", "data", "generate_new_data", "_negative_log_likelihood_"}

\* C19: when _fit raises, fit raises to its caller, and params_, data,
\* generate_new_data and the achieved objective of the instance are what they
\* were before the call: absent if they were absent, the same value if not.
C19_FailedFitLeavesNoResult ==
    (pc = "returned" /\ frame.op = "fit" /\ ret = Raise("_fit")) =>
        \A a \in FitResultAttrs :
            /\ a \in DOMAIN self <=> a \in DOMAIN frame.self0
            /\ a \in DOMAIN self => self[a] = frame.self0[a]

\* C19 witness: _fit has raised in a call of fit on an instance that was
\* already fitted, on data other than the data of its fit.
C19_Witness ==
    /\ pc = "returned"
    /\ frame.op = "fit"
    /\ ret = Raise("_fit")
    /\ "params_" \in DOMAIN self
    /\ self.params_ # PyNone
    /\ self.data.rows # frame.data

\* C28: when fit returns on a ModifiedBetaGeoFitter, the objective it achieved
\* is that of the MBG/NBD evaluator, the _negative_log_likelihood of the
\* instance's own class, and generate_new_data is the MBG/NBD generator, not
\* the BG/NBD generator the inherited fit had bound.
C28_ModifiedFitUsesOwnObjective ==
    (cls = "ModifiedBetaGeo" /\ pc = "returned" /\ frame.op = "fit" /\ ret = Return("self")) =>
        /\ self._negative_log_likelihood_.by = "ModifiedBetaGeo"
        /\ self.generate_new_data.model = "modified_beta_geometric_nbd_model"
        /\ self.generate_new_data.model # Generator("BetaGeo")
        /\ self.params_ = fit_map

\* C28 witness: fit has returned on a ModifiedBetaGeoFitter.
C28_Witness ==
    /\ cls = "ModifiedBetaGeo"
    /\ pc = "returned"
    /\ frame.op = "fit"
    /\ ret = Return("self")
    /\ self.generate_new_data.t = "function"
    /\ self._negative_log_likelihood_.on = frame.data

(***************************************************************************)
(* SpecGoF: one call of goodness_of_test.  The objectives that fitting and *)
(* evaluating produce are drawn from a small set of numbers; the interval  *)
(* and the decision are computed from them as the code computes them.      *)
(***************************************************************************)
MaxSim  == 3        \* simulation_size ranges over 1 .. MaxSim
MaxNll  == 2        \* an objective is one of 0 .. MaxNll
ConfDen == 4        \* confidence_level ranges over the multiples of 1/ConfDen

RSub(p, q) == RAdd(p, <<-q[1], q[2]>>)
RLess(p, q) == p[1] * q[2] < q[1] * p[2]
RLeq(p, q) == p[1] * q[2] <= q[1] * p[2]

\* the integer part of a non-negative rational
Floor(p) == p[1] \div p[2]

\* the sequence a with x inserted before its first larger element
RECURSIVE Insert(_, _)
Insert(x, a) ==
    IF a = <<>> THEN <<x>>
    ELSE IF RLeq(x, Head(a)) THEN <<x>> \o a
    ELSE <<Head(a)>> \o Insert(x, Tail(a))

RECURSIVE Sorted(_)
Sorted(a) == IF a = <<>> THEN <<>> ELSE Insert(Head(a), Sorted(Tail(a)))

\* np.percentile(a, 100 q), by linear interpolation between the two order
\* statistics around the position q (len(a) - 1)
percentile(a, q) ==
    LET b == Sorted(a)
        n == Len(b)
        h == RMul(q, <<n - 1, 1>>)
        lo == Floor(h)
        hi == IF lo + 1 < n THEN lo + 1 ELSE lo
    IN  RAdd(b[lo + 1], RMul(RSub(h, <<lo, 1>>), RSub(b[hi + 1], b[lo + 1])))

\* lwr < n_ll < upr, with the bounds excluded
StrictlyInside_Closed(lwr, n_ll, upr) == RLeq(lwr, n_ll) /\ RLeq(n_ll, upr)
StrictlyInside(lwr, n_ll, upr) == RLess(lwr, n_ll) /\ RLess(n_ll, upr)

Objectives == {<<o, 1>> : o \in 0..MaxNll}

MaxCust == 2        \* a dataset holds 1 .. MaxCust customers

\* the defaults of generate_neg_likelihoods: size=100, penalizer_coef=0.1
DefaultSize == 100
DefaultCoef == <<1, 10>>

\* a compressed dataset of class c: one history, never a repeat purchase, of
\* age T, carried by n customers (the column N)
Dataset(c, T, n) ==
    [rows |-> <<IF c = "BG" THEN <<0, T>> ELSE <<0, 0, T>>>>, N |-> Weights(<<n>>)]

\* fitter.generate_new_data(size=size, compressed=True, ts=ts): the external
\* generator returns a compressed dataset of size customers, of ages from ts
generate_new_data(c, fn, size, ts) ==
    [rows |-> Dataset(c, ts[1], size).rows, N |-> Dataset(c, ts[1], size).N,
     model |-> fn.model, params |-> fn.params]

\* obj.fit(**d), when _fit returns the vector ps
fit(c, obj, d, ps) ==
    FitAssign(c, obj, d.rows, d.N, gen_t(c, d.rows, d.N), ps)

\* fitter._negative_log_likelihood(params=ps, penalizer_coef=coef, **d)
\* (and a faulty variant, which evaluates at a vector of its own)
Evaluation_Elsewhere(ps, coef, d) == [t |-> "float", at |-> PyNone, coef |-> coef, on |-> d]
Evaluation(ps, coef, d) == [t |-> "float", at |-> ps, coef |-> coef, on |-> d]

\* current_fitter.fit(**gen_data): the instance i of the heap is fitted
refit_current_Shared(heap, i, c, gen_data) ==
    [j \in DOMAIN heap |->
        IF j \in {0, i} THEN fit(c, heap[j], gen_data, [k \in 1..NumParams(c) |-> <<2, 1>>])
        ELSE heap[j]]
refit_current(heap, i, c, gen_data) ==
    [heap EXCEPT ![i] = fit(c, heap[i], gen_data, [k \in 1..NumParams(c) |-> <<2, 1>>])]

GoFInit ==
    /\ g_pc = "fit"
    /\ \E c \in {"BGBB", "BG"}, n \in 1..MaxCust :
       \E test \in {PyNone} \cup (IF n = MaxCust THEN {Dataset(c, MaxT, m) : m \in 1..MaxCust} ELSE {}) :
          g_in \in [fitter_class : {c},
                    data : {Dataset(c, MaxT, n)},
                    penalizer_coef : {DefaultCoef, <<1, 1>>},
                    simulation_size : 1..MaxSim,
                    confidence_level : {Rat(k, ConfDen) : k \in 1..ConfDen},
                    test_data : {test}]
    /\ g_n_ll = PyNone
    /\ g_n_lls = <<>>
    /\ g_bounds = <<>>
    /\ g_ret = NoOutcome
    /\ g_heap = [j \in {0} |-> Construct(g_in.fitter_class, g_in.penalizer_coef)]
    /\ g_trace = <<>>
    /\ NoEvaluation
    /\ NoFitter
    /\ NoSplit /\ NoInterleaving /\ NoFunction

\* fitter.fit(**data) raises
gof_fit_fails ==
    /\ g_pc = "fit"
    /\ g_pc' = "done"
    /\ g_ret' = Raise("fit")
    /\ UNCHANGED <<g_in, g_n_ll, g_n_lls, g_bounds, g_heap, g_trace>>
    /\ UNCHANGED <<nll_vars, fit_vars, split_vars, par_vars, fn_vars>>

\* fitter.fit(**data) returns; n_ll is the objective it achieved or, with
\* test_data, the objective of the fitted parameters on test_data
gof_fit ==
    \E o \in Objectives :
        LET c == g_in.fitter_class
            fitter == fit(c, g_heap[0], g_in.data, [k \in 1..NumParams(c) |-> <<1, 1>>])
            theta == fitter.params_
        IN  /\ g_pc = "fit"
            /\ g_heap' = [g_heap EXCEPT ![0] = fitter]
            /\ g_n_ll' = o
            /\ g_trace' = << IF g_in.test_data = PyNone
                             THEN [gen |-> PyNone, of |-> fitter._negative_log_likelihood_]
                             ELSE [gen |-> PyNone,
                                   of |-> Evaluation(theta, g_in.penalizer_coef, g_in.test_data)] >>
            /\ g_pc' = "simulate"
            /\ UNCHANGED <<g_in, g_n_lls, g_bounds, g_ret>>
            /\ UNCHANGED <<nll_vars, fit_vars, split_vars, par_vars, fn_vars>>

\* one iteration of generate_neg_likelihoods: new data is simulated and its
\* objective appended, of a fresh fit or (with test_data) of the parameters
gof_simulate ==
    \E o \in Objectives :
        LET i == Len(g_n_lls) + 1
            c == g_in.fitter_class
            fitter == g_heap[0]
            theta == fitter.params_
            refit == g_in.test_data = PyNone
            test_ts == IF refit THEN <<>>
                       ELSE ZipRepeat(AgeColumn(c, g_in.test_data.rows), g_in.test_data.N.w)
            gen_data == generate_new_data(c, fitter.generate_new_data, DefaultSize,
                            IF test_ts # <<>> THEN test_ts ELSE fitter.generate_new_data.ts)
            heap == [j \in DOMAIN g_heap \cup {i} |->
                        IF j = i THEN Construct(c, DefaultCoef) ELSE g_heap[j]]
        IN  /\ g_pc = "simulate"
            /\ Len(g_n_lls) < g_in.simulation_size
            /\ g_heap' = IF refit THEN refit_current(heap, i, c, gen_data) ELSE heap
            /\ g_trace' = Append(g_trace,
                   [gen |-> gen_data,
                    of |-> IF refit THEN g_heap'[i]._negative_log_likelihood_
                           ELSE Evaluation(theta, DefaultCoef, gen_data)])
            /\ g_n_lls' = Append(g_n_lls, o)
            /\ UNCHANGED <<g_pc, g_in, g_n_ll, g_bounds, g_ret>>
            /\ UNCHANGED <<nll_vars, fit_vars, split_vars, par_vars, fn_vars>>

\* the fresh fit of an iteration raises
gof_refit_fails ==
    /\ g_pc = "simulate"
    /\ Len(g_n_lls) < g_in.simulation_size
    /\ g_in.test_data = PyNone
    /\ g_pc' = "done"
    /\ g_ret' = Raise("fit")
    /\ UNCHANGED <<g_in, g_n_ll, g_n_lls, g_bounds, g_heap, g_trace>>
    /\ UNCHANGED <<nll_vars, fit_vars, split_vars, par_vars, fn_vars>>

\* lwr, upr = np.percentile(n_lls, [(1 - confidence_level) * 100, confidence_level * 100])
gof_percentile ==
    /\ g_pc = "simulate"
    /\ Len(g_n_lls) = g_in.simulation_size
    /\ g_bounds' = <<percentile(g_n_lls, RSub(<<1, 1>>, g_in.confidence_level)),
                     percentile(g_n_lls, g_in.confidence_level)>>
    /\ g_pc' = "decide"
    /\ UNCHANGED <<g_in, g_n_ll, g_n_lls, g_ret, g_heap, g_trace>>
    /\ UNCHANGED <<nll_vars, fit_vars, split_vars, par_vars, fn_vars>>

\* if lwr < n_ll < upr: return True; return False
gof_decide ==
    /\ g_pc = "decide"
    /\ g_ret' = Return(StrictlyInside(g_bounds[1], g_n_ll, g_bounds[2]))
    /\ g_pc' = "done"
    /\ UNCHANGED <<g_in, g_n_ll, g_n_lls, g_bounds, g_heap, g_trace>>
    /\ UNCHANGED <<nll_vars, fit_vars, split_vars, par_vars, fn_vars>>

GoFNext ==
    \/ gof_fit_fails
    \/ gof_fit
    \/ gof_simulate
    \/ gof_refit_fails
    \/ gof_percentile
    \/ gof_decide

SpecGoF == GoFInit /\ [][GoFNext]_vars

\* alpha = 1 - confidence_level
Alpha == RSub(<<1, 1>>, g_in.confidence_level)

\* C3: the interval is the empirical percentile interval [alpha/2, 1 - alpha/2]
\* of the simulated objectives: lwr is their (alpha/2)*100-th percentile and
\* upr their (1 - alpha/2)*100-th.
C3_IntervalIsAlphaHalf ==
    g_pc \in {"decide", "done"} /\ g_bounds # <<>> =>
        g_bounds = <<percentile(g_n_lls, RMul(Alpha, <<1, 2>>)),
                     percentile(g_n_lls, RSub(<<1, 1>>, RMul(Alpha, <<1, 2>>)))>>

\* C4: goodness_of_test returns True exactly when the observed objective lies
\* strictly between the two bounds; on a bound, or outside, it returns False.
C4_AcceptIffStrictlyInside ==
    (g_pc = "done" /\ g_ret.kind = "return") =>
        (g_ret.val <=> (/\ g_bounds[1][1] * g_n_ll[2] < g_n_ll[1] * g_bounds[1][2]
                        /\ g_n_ll[1] * g_bounds[2][2] < g_bounds[2][1] * g_n_ll[2]))

\* C4 witness: the observed objective is equal to the lower bound of a
\* non-empty interval, and the call has returned False.
C4_Witness ==
    /\ g_pc = "done"
    /\ g_ret.kind = "return"
    /\ ~g_ret.val
    /\ g_n_ll = g_bounds[1]
    /\ RLess(g_bounds[1], g_bounds[2])

C12_ObservedAndSimulatedModes ==
    g_trace # <<>> =>
        /\ IF g_in.test_data # PyNone
           THEN /\ g_trace[1].of = Evaluation(g_heap[0].params_, g_in.penalizer_coef,
                                              g_in.test_data)
                /\ \A k \in 2..Len(g_trace) :
                      /\ g_trace[k].of.at = g_heap[0].params_
                      /\ g_trace[k].of.on = g_trace[k].gen
                      /\ "_negative_log_likelihood_" \notin DOMAIN g_heap[k - 1]
           ELSE /\ g_trace[1].of = g_heap[0]._negative_log_likelihood_
                /\ g_trace[1].of.on = g_in.data.rows
                /\ \A k \in 2..Len(g_trace) :
                      /\ "_negative_log_likelihood_" \in DOMAIN g_heap[k - 1]
                      /\ g_trace[k].of = g_heap[k - 1]._negative_log_likelihood_
                      /\ g_trace[k].of.on = g_trace[k].gen.rows
                      /\ g_trace[k].of.at # g_trace[1].of.at
        /\ Len(g_trace) = Len(g_n_lls) + 1
        /\ g_pc = "decide" => Len(g_n_lls) = g_in.simulation_size

\* C12 witness: a call with a test split has returned after two iterations
\* or more.
C12_Witness ==
    /\ g_pc = "done"
    /\ g_ret.kind = "return"
    /\ g_in.test_data # PyNone
    /\ Len(g_trace) >= 3

\* C18: without a test split, after any number of iterations the fitter that
\* was passed in is as its own fit left it (same params_, data and achieved
\* objective); iteration k has constructed one new instance of the fitter's
\* class and fitted it to the synthetic data of that iteration, and has
\* recorded one objective; when the call returns there are exactly
\* simulation_size objectives.
C18_RefitLeavesFitterAlone ==
    (g_in.test_data = PyNone /\ g_trace # <<>>) =>
        LET c == g_in.fitter_class
            fitter == fit(c, Construct(c, g_in.penalizer_coef), g_in.data,
                          [k \in 1..NumParams(c) |-> <<1, 1>>])
        IN  /\ g_heap[0] = fitter
            /\ g_heap[0].params_ = fitter.params_
            /\ g_heap[0].data = fitter.data
            /\ g_heap[0]._negative_log_likelihood_ = g_trace[1].of
            /\ DOMAIN g_heap = 0..Len(g_n_lls)
            /\ \A k \in 1..Len(g_n_lls) :
                  /\ g_heap[k].generate_new_data.model = Generator(c)
                  /\ g_heap[k].data.rows = g_trace[k + 1].gen.rows
                  /\ g_heap[k] = fit(c, Construct(c, g_heap[k].penalizer_coef),
                                     g_trace[k + 1].gen, [j \in 1..NumParams(c) |-> <<2, 1>>])
            /\ (g_pc = "done" /\ g_ret.kind = "return") =>
                  Len(g_n_lls) = g_in.simulation_size

\* C18 witness: a call without a test split has returned after two iterations
\* or more, each with an instance of its own.
C18_Witness ==
    /\ g_pc = "done"
    /\ g_ret.kind = "return"
    /\ g_in.test_data = PyNone
    /\ Len(g_n_lls) >= 2
    /\ g_heap[1] # g_heap[0]
    /\ g_heap[2]._negative_log_likelihood_ = g_trace[3].of

\* C21: every simulated objective is computed with the penalizer coefficient
\* of the observed objective n_ll: that of the fitted instance and of each
\* refitted instance without a test split, that of the two evaluations with
\* one.
C21_SamePenalizerBothSides ==
    \A k \in 2..Len(g_trace) :
        IF g_in.test_data = PyNone
        THEN g_heap[k - 1].penalizer_coef = g_heap[0].penalizer_coef
        ELSE g_trace[k].of.coef = g_trace[1].of.coef

(***************************************************************************)
(* SpecSplit: one call of split_dataset(data, test_size_ratio).  The data  *)
(* is given by its column N; each np.random.uniform() < test_size_ratio is *)
(* a choice between its two outcomes.                                      *)
(***************************************************************************)
MaxSplitRows == 2   \* data has 1 .. MaxSplitRows rows, of weights 0 .. MaxWeight

\* data[data['N'] > 0] after data['N'] = ws: the rows kept, each given by its
\* index in data and its weight (and a faulty variant, which keeps every row)
Keep_All(ws) == [i \in 1..Len(ws) |-> <<i, ws[i]>>]
Keep(ws) == SelectSeq([i \in 1..Len(ws) |-> <<i, ws[i]>>], LAMBDA r : r[2] > 0)

SplitInit ==
    /\ s_pc = "loop"
    /\ s_N \in UNION {[1..n -> 0..MaxWeight] : n \in 1..MaxSplitRows}
    /\ s_i = 0
    /\ s_left = 0
    /\ s_test_N = <<>>
    /\ s_train_N = <<>>
    /\ s_ret = NoOutcome
    /\ NoEvaluation /\ NoFitter /\ NoValidation /\ NoInterleaving /\ NoFunction

\* for i, n in enumerate(data['N']): test_N.append(0); train_N.append(0)
split_row ==
    /\ s_pc = "loop"
    /\ s_left = 0
    /\ s_i < Len(s_N)
    /\ s_i' = s_i + 1
    /\ s_left' = s_N[s_i + 1]
    /\ s_test_N' = Append(s_test_N, 0)
    /\ s_train_N' = Append(s_train_N, 0)
    /\ UNCHANGED <<s_pc, s_N, s_ret>>
    /\ UNCHANGED <<nll_vars, fit_vars, gof_vars, par_vars, fn_vars>>

\* for _ in range(n): if np.random.uniform() < test_size_ratio:
\*     test_N[i] += 1 else: train_N[i] += 1
split_draw ==
    \E to_test \in BOOLEAN :
        /\ s_pc = "loop"
        /\ s_left > 0
        /\ s_left' = s_left - 1
        /\ s_test_N' = IF to_test THEN [s_test_N EXCEPT ![s_i] = @ + 1] ELSE s_test_N
        /\ s_train_N' = IF to_test THEN s_train_N ELSE [s_train_N EXCEPT ![s_i] = @ + 1]
        /\ UNCHANGED <<s_pc, s_N, s_i, s_ret>>
        /\ UNCHANGED <<nll_vars, fit_vars, gof_vars, par_vars, fn_vars>>

\* the two copies of data get their column N, lose the rows of weight 0, and
\* are returned
split_return ==
    /\ s_pc = "loop"
    /\ s_left = 0
    /\ s_i = Len(s_N)
    /\ s_ret' = Return([train_data |-> Keep(s_train_N), test_data |-> Keep(s_test_N)])
    /\ s_pc' = "done"
    /\ UNCHANGED <<s_N, s_i, s_left, s_test_N, s_train_N>>
    /\ UNCHANGED <<nll_vars, fit_vars, gof_vars, par_vars, fn_vars>>

SplitNext == split_row \/ split_draw \/ split_return

SpecSplit == SplitInit /\ [][SplitNext]_vars

\* C13: split_dataset conserves the weight of every row, train weight plus
\* test weight being N[i] whatever the draws; a row is in the train (test)
\* output exactly when its train (test) weight is positive, and carries that
\* weight there; so no output row has weight 0, and every row of weight 1 or
\* more is in one output at least.
C13_SplitConservesWeight ==
    s_pc = "done" =>
        LET train == s_ret.val.train_data
            test == s_ret.val.test_data
            In(out, i) == \E j \in 1..Len(out) : out[j][1] = i
        IN  /\ \A i \in 1..Len(s_N) :
                /\ s_train_N[i] + s_test_N[i] = s_N[i]
                /\ In(train, i) <=> s_train_N[i] > 0
                /\ In(test, i) <=> s_test_N[i] > 0
                /\ s_N[i] >= 1 => In(train, i) \/ In(test, i)
            /\ \A j \in 1..Len(train) : train[j][2] > 0 /\ train[j][2] = s_train_N[train[j][1]]
            /\ \A j \in 1..Len(test) : test[j][2] > 0 /\ test[j][2] = s_test_N[test[j][1]]

\* C13 witness: of two rows, one has its weight divided between the outputs
\* and the other has all of its weight in the test output.
C13_Witness ==
    /\ s_pc = "done"
    /\ \E i, k \in 1..Len(s_N) :
          /\ s_train_N[i] >= 1 /\ s_test_N[i] >= 1
          /\ s_train_N[k] = 0 /\ s_test_N[k] >= 1
          /\ Len(s_ret.val.train_data) = 1

(***************************************************************************)
(* SpecFn: one call of a function of the fitters, on Python numbers: a     *)
(* static derived quantity, an evaluator on one history, or a method of a  *)
(* fitted instance given by its class and data.  The parameters are        *)
(* integers, so that the values are rational and computed exactly.         *)
(***************************************************************************)
PyInt(k) == [t |-> "int", k |-> k]

\* scipy.special.binom(m, k) for integers 0 <= k <= m
RECURSIVE binom(_, _)
binom(m, k) == IF k = 0 \/ k = m THEN 1 ELSE binom(m - 1, k - 1) + binom(m - 1, k)

\* ---- P(N(t) = n): the exact purchase-count distributions

\* isinstance(n, int) and isinstance(t, int)
BothInt(t, n) == n.t = "int" /\ t.t = "int"

\* BGBBFitter.static_probability_of_n_purchases_up_to_time(a, b, g, d, t, n)
BGBB_probability_of_n(ps, t, n) ==
    IF ~BothInt(t, n) THEN Raise("TypeError")
    ELSE LET a == ps[1]
             b == ps[2]
             g == ps[3]
             d == ps[4]
             common_factor == RInv(RMul(BetaInt(a, b), BetaInt(g, d)))
             first_term == RMul(RMul(<<binom(t.k, n.k), 1>>, BetaInt(a + n.k, b + t.k - n.k)),
                                BetaInt(g, d + t.k))
             second_term == RSum([j \in 1..(t.k - n.k) |->
                                LET i == n.k + j - 1
                                IN  RMul(RMul(<<binom(i, n.k), 1>>, BetaInt(a + n.k, b + i - n.k)),
                                         BetaInt(g + 1, d + i))])
         IN  Return(RMul(common_factor, RAdd(first_term, second_term)))

\* BGFitter.static_probability_of_n_purchases_up_to_time(a, b, t, n)
\* (a faulty variant first: no check of t and n, and the branch of n = 0)
BG_probability_Unchecked(ps, t, n) ==
    Return(RDiv(BetaInt(ps[1] + 1, ps[2]), BetaInt(ps[1], ps[2])))

BG_probability_of_n(ps, t, n) ==
    IF ~BothInt(t, n) THEN Raise("TypeError")
    ELSE LET a == ps[1]
             b == ps[2]
             den == BetaInt(a, b)
         IN  IF t.k < n.k THEN Raise("ValueError")
             ELSE IF n.k = 0 THEN Return(RDiv(BetaInt(a + 1, b), den))
             ELSE IF n.k < t.k THEN Return(RDiv(BetaInt(a + 1, b + n.k), den))
             ELSE Return(RDiv(BetaInt(a, b + n.k), den))

\* ---- E(t): the expected number of purchases up to time t

\* x / y on Python numbers raises when y is 0
ZeroDivision(y) == y = 0

\* ParetoNBDFitter.static_expected_number_of_purchases_up_to_time(r, a, s, b, t)
ParetoNBD_expected(ps, t) ==
    LET r == ps[1]
        alpha == ps[2]
        ss == ps[3]
        beta == ps[4]
    IN  IF ZeroDivision(ss - 1) THEN Raise("ZeroDivisionError")
        ELSE LET first_term == Rat(r * beta, alpha * (ss - 1))
                 second_term == RSub(<<1, 1>>, RPow(Rat(beta, beta + t), ss - 1))
             IN  Return(RMul(first_term, second_term))

\* BGFitter.static_expected_number_of_purchases_up_to_time(a, b, t), a >= 2
BG_expected(ps, t) ==
    LET a == ps[1]
        b == ps[2]
        den == BetaInt(a, b)
    IN  IF t = 0 THEN Return(<<0, 1>>)
        ELSE IF t = 1 THEN Return(RDiv(BetaInt(a, b + 1), den))
        ELSE Return(RDiv(RSum(<< RMul(<<t, 1>>, BetaInt(a, b + t)),
                                 BetaInt(a - 1, b + 1),
                                 RMul(<<-1, 1>>, BetaInt(a - 1, b + t)),
                                 RMul(<<-(t - 1), 1>>, BetaInt(a, b + t)) >>), den))

\* ---- a value together with its derivative in one chosen parameter, as the
\* pair <<value, derivative>>: sums, products and quotients of such pairs
\* follow the rules of differentiation
DAdd(x, y) == <<RAdd(x[1], y[1]), RAdd(x[2], y[2])>>
DMul(x, y) == <<RMul(x[1], y[1]), RAdd(RMul(x[1], y[2]), RMul(x[2], y[1]))>>
DDiv(x, y) ==
    <<RDiv(x[1], y[1]),
      RDiv(RSub(RMul(x[2], y[1]), RMul(x[1], y[2])), RMul(y[1], y[1]))>>

\* (special.gamma(g + d) / special.gamma(1 + d)) / gamma_ratio(t + d + 1, g - 1)
\* with gamma_ratio(x, y) = gamma(x + y) / gamma(x): for an integer t >= 0 it
\* is the product of (d + 1 + k) / (g + d + k) over k = 0 .. t - 1
RECURSIVE gamma_quotient(_, _, _)
gamma_quotient(g, d, t) ==
    IF t = 0 THEN <<<<1, 1>>, <<0, 1>>>>
    ELSE DMul(gamma_quotient(g, d, t - 1),
              DDiv(DAdd(d, <<<<t, 1>>, <<0, 1>>>>),
                   DAdd(DAdd(g, d), <<<<t - 1, 1>>, <<0, 1>>>>)))

\* the expression of BGBBFitter.static_expected_number_of_purchases_up_to_time,
\* g # 1, with its derivative in parameter i (in no parameter when i = 0)
BGBB_E(ps, t, i) ==
    LET V(j) == <<<<ps[j], 1>>, <<IF j = i THEN 1 ELSE 0, 1>>>>
        K(k) == <<<<k, 1>>, <<0, 1>>>>
        a == V(1)
        b == V(2)
        g == V(3)
        d == V(4)
    IN  DMul(DDiv(DMul(DDiv(a, DAdd(a, b)), d), DAdd(g, K(-1))),
             DAdd(K(1), DMul(K(-1), gamma_quotient(g, d, t))))

\* BGBBFitter.static_expected_number_of_purchases_up_to_time(a, b, g, d, t)
BGBB_expected(ps, t) ==
    IF ZeroDivision(ps[3] - 1) THEN Raise("ZeroDivisionError")
    ELSE Return(BGBB_E(ps, t, 0)[1])

\* special.psi(x) - special.psi(x + t) for an integer t >= 0
psi_difference(x, t) == RSum([k \in 1..t |-> Rat(-1, x + k - 1)])

\* g^T C g
quadratic_form(g, C) ==
    RSum([k \in 1..(Len(g) * Len(g)) |->
            LET i == ((k - 1) \div Len(g)) + 1
                j == ((k - 1) % Len(g)) + 1
            IN  RMul(RMul(g[i], <<C[i][j], 1>>), g[j])])

\* BGBBFitter.static_expected_number_of_purchases_up_to_time_error(a, b, g, d, t, C);
\* the value math.sqrt(v) is returned as [t |-> "sqrt", of |-> v]
BGBB_expected_error(ps, t, C) ==
    IF Len(C) # 4 \/ Len(C[1]) # 4 THEN Raise(DimensionError)
    ELSE IF ZeroDivision(ps[3] - 1) THEN Raise("ZeroDivisionError")
    ELSE LET a == ps[1]
             b == ps[2]
             g == ps[3]
             d == ps[4]
             E == BGBB_E(ps, t, 0)[1]
             R == RMul(Rat(a * d, (a + b) * (g - 1)),
                       RMul(<<-1, 1>>, gamma_quotient(<<<<g, 1>>, <<0, 1>>>>,
                                                      <<<<d, 1>>, <<0, 1>>>>, t)[1]))
             dEda == RMul(Rat(b, a + b), E)
             dEdb == RMul(Rat(-1, a + b), E)
             dEdg == RAdd(RMul(Rat(-1, g - 1), E), RMul(R, psi_difference(g + d, t)))
             dEdd == RAdd(RMul(Rat(1, d), E),
                          RMul(R, RSub(psi_difference(g + d, t), psi_difference(1 + d, t))))
         IN  Return([t |-> "sqrt", of |-> quadratic_form(<<dEda, dEdb, dEdg, dEdd>>, C)])

\* ---- _negative_log_likelihood on a single history given as Python numbers

\* BGBBFitter._negative_log_likelihood, x a single number: the numerator
\* (a faulty variant first, whose sum stops one term early)
BGBB_scalar_numerator_Short(ps, x, tx, T) ==
    RAdd(RMul(BetaInt(ps[1] + x, ps[2] + T - x), BetaInt(ps[3], ps[4] + T)),
         RSum([i1 \in 1..(T - tx - 1) |->
                  RMul(BetaInt(ps[1] + x, ps[2] + tx - x + (i1 - 1)),
                       BetaInt(ps[3] + 1, ps[4] + tx + (i1 - 1)))]))

BGBB_scalar_numerator(ps, x, tx, T) ==
    LET a == ps[1]
        b == ps[2]
        g == ps[3]
        d == ps[4]
    IN  RAdd(RMul(BetaInt(a + x, b + T - x), BetaInt(g, d + T)),
             \* for i in range(int(T - tx - 1 + 1))
             RSum([i1 \in 1..(T - tx - 1 + 1) |->
                      RMul(BetaInt(a + x, b + tx - x + (i1 - 1)),
                           BetaInt(g + 1, d + tx + (i1 - 1)))]))

\* BGBBFitter._negative_log_likelihood(ps, x, tx, T, coef, N=n, jac=jacMode),
\* x a single number; w is NoWeights or the single weight
BGBB_scalar_negative_log_likelihood(ps, x, tx, T, coef, w, jacMode) ==
    IF AnyNonPositive(ps) THEN PInf
    ELSE LET denominator == RMul(BetaInt(ps[1], ps[2]), BetaInt(ps[3], ps[4]))
             llj == ELog(RDiv(BGBB_scalar_numerator(ps, x, tx, T), denominator))
             ll == IF w.given THEN ENeg(EScale(w.w[1], llj)) ELSE ENeg(llj)
         IN  IF jacMode = FALSE THEN EAdd(ll, PenalizerTerm(coef, ps)) ELSE ll

\* BGFitter._negative_log_likelihood(ps, x, T, coef, N=n), x a single number
BG_scalar_negative_log_likelihood(ps, x, T, coef, w) ==
    IF ps[1] <= 0 \/ ps[2] <= 0 THEN PInf
    ELSE LET Ntot == IF w.given THEN w.w[1] ELSE 1
             numerator == IF x < T THEN BetaInt(ps[1] + 1, ps[2] + x)
                          ELSE IF x = T THEN BetaInt(ps[1], ps[2] + x)
                          ELSE <<0, 1>>
             llj == ELog(numerator)
             ll == IF w.given THEN ENeg(EScale(w.w[1], llj)) ELSE ENeg(llj)
         IN  ESum(<< ll, EScale(Ntot, ELog(BetaInt(ps[1], ps[2]))), PenalizerTerm(coef, ps) >>)

\* ---- ParetoNBDFitter._log_A_0(params, frequency, recency, age): the two
\* calls special.hyp2f1(rsf, t, rsf + 1., z) it makes, each as <<rsf, t,
\* rsf + 1, z>>; the logarithm it returns has no closed form
\* (a faulty variant first, which does not order alpha and beta)
ParetoNBD_log_A_0_Unordered(ps, frequency, recency, age) ==
    LET rsf == ps[1] + ps[3] + frequency
    IN  << <<rsf, ps[1] + frequency, rsf + 1, Rat(ps[4] - ps[2], ps[4] + recency)>>,
           <<rsf, ps[1] + frequency, rsf + 1, Rat(ps[4] - ps[2], ps[4] + age)>> >>

ParetoNBD_log_A_0(ps, frequency, recency, age) ==
    LET r == ps[1]
        alpha == ps[2]
        ss == ps[3]
        beta == ps[4]
        sel == IF alpha < beta THEN <<alpha, beta, r + frequency>> ELSE <<beta, alpha, ss + 1>>
        min_of_alpha_beta == sel[1]
        max_of_alpha_beta == sel[2]
        t == sel[3]
        abs_alpha_beta == max_of_alpha_beta - min_of_alpha_beta
        rsf == r + ss + frequency
    IN  << <<rsf, t, rsf + 1, Rat(abs_alpha_beta, max_of_alpha_beta + recency)>>,
           <<rsf, t, rsf + 1, Rat(abs_alpha_beta, max_of_alpha_beta + age)>> >>

\* ---- conditional_probability_alive_matrix(max_frequency, max_recency) of a
\* fitted instance of class c with the data vectors data; the cell of the
\* matrix is given by the call self.conditional_probability_alive(x, t_x, T)
\* that computes it, as <<c, x, t_x, T>>

\* x or y, on an int or None x
PyOr(x, y) == IF x = PyNone \/ x = PyInt(0) THEN y ELSE x.k

RECURSIVE ColumnMax(_, _)
ColumnMax(data, c) ==
    IF Len(data) = 1 THEN data[1][c]
    ELSE LET m == ColumnMax(Tail(data), c)
         IN  IF data[1][c] > m THEN data[1][c] ELSE m

conditional_probability_alive_matrix(c, data, max_frequency, max_recency) ==
    LET mf == PyOr(max_frequency, ColumnMax(data, 1))
        mr == PyOr(max_recency, ColumnMax(data, 3))
    IN  [i \in 1..(mr + 1) |-> [j \in 1..(mf + 1) |-> <<c, j - 1, i - 1, mr>>]]

\* ---- the probability of converting at time t, extended conversion model;
\* ps holds a, b, g, d, e, z and c0 is a rational

\* lifetimes.utils.ncr(n, r): the number of r-subsets of an n-set
ncr(n, r) == binom(n, r)

\* BGBBBGExtFitter.static_expected_probability_of_converting_at_time
static_expected_probability_of_converting_at_time(ps, c0, t) ==
    IF t = 0 THEN c0
    ELSE LET a == ps[1]
             b == ps[2]
             g == ps[3]
             d == ps[4]
             e == ps[5]
             z == ps[6]
             alive_coefficient ==
                 RDiv(BetaInt(g, d + t),
                      RMul(RMul(BetaInt(a, b), BetaInt(g, d)), BetaInt(e, z)))
             summation ==
                 RMul(RSub(<<1, 1>>, c0),
                      RSum([k1 \in 1..t |->
                              LET k == k1 - 1
                              IN  RMul(RMul(<<ncr(t - 1, k) * (IF k % 2 = 0 THEN 1 ELSE -1), 1>>,
                                            BetaInt(a + k + 1, b)),
                                       BetaInt(e + k + 1, z))]))
         IN  RMul(alive_coefficient, summation)

\* BGBBBGExtFitter.static_regularized_expected_probability_of_converting_at_time
\* (a faulty variant first, which only looks for a value above 1)
static_regularized_OnlyAboveOne(ps, c0, t) ==
    LET value == static_expected_probability_of_converting_at_time(ps, c0, t)
    IN  IF t > 1 /\ RLess(<<1, 1>>, value) THEN <<0, 1>> ELSE value

static_regularized_expected_probability_of_converting_at_time(ps, c0, t) ==
    LET value == static_expected_probability_of_converting_at_time(ps, c0, t)
        prev_value == static_expected_probability_of_converting_at_time(ps, c0, t - 1)
    IN  IF t > 1 /\ (\/ RLess(value, <<0, 1>>)
                     \/ RLess(prev_value, value)
                     \/ RLess(value, <<1, 1000000>>)
                     \/ RLess(<<1, 1>>, value))
        THEN <<0, 1>>
        ELSE value

\* ---- the calls
ProbabilityFns == {"BGBBFitter.static_probability_of_n_purchases_up_to_time",
                   "BGBBBGExtFitter.static_probability_of_n_sessions_up_to_time",
                   "BGFitter.static_probability_of_n_purchases_up_to_time"}

ExpectedFns == {"ParetoNBDFitter.static_expected_number_of_purchases_up_to_time",
                "BGBBFitter.static_expected_number_of_purchases_up_to_time",
                "BGFitter.static_expected_number_of_purchases_up_to_time"}

ErrorFns == {"BGBBFitter.static_expected_number_of_purchases_up_to_time_error"}

LikelihoodFns == {"BGBBFitter._negative_log_likelihood", "BGFitter._negative_log_likelihood"}

\* the arguments of the calls of f: P(N(t) = n) at Python ints and floats
\* (ints with n <= t, but for the BG model); E(t) and its error at integer
\* times, the error with a 4 x 4 matrix that has a single 1 on its diagonal,
\* or with the identity
FnArgs(f) ==
    LET Nums == {PyInt(k) : k \in 0..MaxT} \cup {PyFloat(<<1, 2>>), PyFloat(<<1, 1>>)}
        Vec(p) == [1..p -> 1..MaxParam]
        Unit(i) == [r \in 1..4 |-> [c \in 1..4 |-> IF r = c /\ (i = 0 \/ r = i) THEN 1 ELSE 0]]
        bg == f \in {"BGFitter.static_probability_of_n_purchases_up_to_time",
                     "BGFitter.static_expected_number_of_purchases_up_to_time"}
        p == IF bg THEN 2 ELSE 4
    IN  CASE f \in ProbabilityFns ->
              {[ps |-> [i \in 1..p |-> x[1]], t |-> x[2], n |-> x[3], C |-> <<>>] :
                  x \in {y \in (1..MaxParam) \X Nums \X Nums :
                            (~bg /\ y[2].t = "int" /\ y[3].t = "int") => y[3].k <= y[2].k}}
          [] f \in ExpectedFns ->
              {[ps |-> ps, t |-> PyInt(t), n |-> PyNone, C |-> <<>>] :
                  ps \in {q \in Vec(p) : bg => q[1] >= 2}, t \in 0..MaxT}
          [] f \in ErrorFns ->
              {[ps |-> ps, t |-> PyInt(t), n |-> PyNone, C |-> Unit(i)] :
                  ps \in {q \in Vec(4) : q[3] >= 2}, t \in 0..MaxT, i \in 0..4}
          [] f = "ParetoNBDFitter._log_A_0" ->
              [ps : Vec(4), row : (0..MaxT) \X (0..MaxT) \X (0..MaxT)]
          [] f = "conditional_probability_alive_matrix" ->
              [cls : {"ParetoNBD", "BetaGeo", "ModifiedBetaGeo"},
               data : DataOf(HistoryRows),
               max_frequency : {PyNone} \cup {PyInt(k) : k \in 0..MaxT},
               max_recency : {PyNone} \cup {PyInt(k) : k \in 0..MaxT}]
          [] f = "BGBBBGExtFitter.static_regularized_expected_probability_of_converting_at_time" ->
              \* c0 a multiple of 1/C0Den from 0 to beyond 1
              [ps : Vec(6), c0 : {Rat(k, C0Den) : k \in 0..(C0Den + 1)},
               t : {PyInt(k) : k \in 0..MaxT}]
          [] f \in LikelihoodFns ->
              \* one history, as numbers or as vectors of length 1; for the BG
              \* model any frequency and T
              LET fam == IF f = "BGFitter._negative_log_likelihood" THEN "BG" ELSE "BGBB"
                  H == IF fam = "BG" THEN (0..MaxT) \X (0..MaxT) ELSE HistoryRows
              IN  [ps : AnyParams(fam), row : H, scalar : BOOLEAN,
                   jac : IF fam = "BG" THEN {FALSE} ELSE BOOLEAN,
                   coef : {0, MaxCoef},
                   N : {NoWeights} \cup {Weights(<<m>>) : m \in 1..MaxWeight}]

FnInit ==
    /\ d_fn \in ProbabilityFns \cup ExpectedFns \cup ErrorFns \cup LikelihoodFns
                \cup {"ParetoNBDFitter._log_A_0", "conditional_probability_alive_matrix",
                      "BGBBBGExtFitter.static_regularized_expected_probability_of_converting_at_time"}
    /\ d_args \in FnArgs(d_fn)
    /\ d_pc = "call"
    /\ d_ret = NoOutcome
    /\ NoEvaluation /\ NoFitter /\ NoValidation /\ NoSplit /\ NoInterleaving

\* static_probability_of_n_sessions_up_to_time returns what the BG/BB
\* function returns
probability_of_n ==
    /\ d_pc = "call"
    /\ d_fn \in ProbabilityFns
    /\ d_ret' = IF d_fn = "BGFitter.static_probability_of_n_purchases_up_to_time"
                THEN BG_probability_of_n(d_args.ps, d_args.t, d_args.n)
                ELSE BGBB_probability_of_n(d_args.ps, d_args.t, d_args.n)
    /\ d_pc' = "done"
    /\ UNCHANGED <<d_fn, d_args>>
    /\ UNCHANGED <<nll_vars, fit_vars, gof_vars, split_vars, par_vars>>

expected_number ==
    /\ d_pc = "call"
    /\ d_fn \in ExpectedFns
    /\ d_ret' = CASE d_fn = "ParetoNBDFitter.static_expected_number_of_purchases_up_to_time" ->
                        ParetoNBD_expected(d_args.ps, d_args.t.k)
                  [] d_fn = "BGBBFitter.static_expected_number_of_purchases_up_to_time" ->
                        BGBB_expected(d_args.ps, d_args.t.k)
                  [] d_fn = "BGFitter.static_expected_number_of_purchases_up_to_time" ->
                        BG_expected(d_args.ps, d_args.t.k)
    /\ d_pc' = "done"
    /\ UNCHANGED <<d_fn, d_args>>
    /\ UNCHANGED <<nll_vars, fit_vars, gof_vars, split_vars, par_vars>>

expected_number_error ==
    /\ d_pc = "call"
    /\ d_fn \in ErrorFns
    /\ d_ret' = BGBB_expected_error(d_args.ps, d_args.t.k, d_args.C)
    /\ d_pc' = "done"
    /\ UNCHANGED <<d_fn, d_args>>
    /\ UNCHANGED <<nll_vars, fit_vars, gof_vars, split_vars, par_vars>>

\* _negative_log_likelihood on one history: isinstance(x, float) or
\* isinstance(x, int) chooses the path
negative_log_likelihood ==
    LET A == d_args
        r == A.row
    IN  /\ d_pc = "call"
        /\ d_fn \in LikelihoodFns
        /\ d_ret' = Return(
              IF d_fn = "BGFitter._negative_log_likelihood"
              THEN IF A.scalar
                   THEN BG_scalar_negative_log_likelihood(A.ps, r[1], r[2], A.coef, A.N)
                   ELSE BG_negative_log_likelihood(A.ps, <<r>>, A.coef, A.N)
              ELSE IF A.scalar
                   THEN BGBB_scalar_negative_log_likelihood(A.ps, r[1], r[2], r[3],
                                                            A.coef, A.N, A.jac)
                   ELSE BGBB_negative_log_likelihood(A.ps, <<r>>, A.coef, A.N, A.jac))
        /\ d_pc' = "done"
        /\ UNCHANGED <<d_fn, d_args>>
        /\ UNCHANGED <<nll_vars, fit_vars, gof_vars, split_vars, par_vars>>

log_A_0 ==
    /\ d_pc = "call"
    /\ d_fn = "ParetoNBDFitter._log_A_0"
    /\ d_ret' = Return(ParetoNBD_log_A_0(d_args.ps, d_args.row[1], d_args.row[2], d_args.row[3]))
    /\ d_pc' = "done"
    /\ UNCHANGED <<d_fn, d_args>>
    /\ UNCHANGED <<nll_vars, fit_vars, gof_vars, split_vars, par_vars>>

alive_matrix ==
    /\ d_pc = "call"
    /\ d_fn = "conditional_probability_alive_matrix"
    /\ d_ret' = Return(conditional_probability_alive_matrix(d_args.cls, d_args.data,
                            d_args.max_frequency, d_args.max_recency))
    /\ d_pc' = "done"
    /\ UNCHANGED <<d_fn, d_args>>
    /\ UNCHANGED <<nll_vars, fit_vars, gof_vars, split_vars, par_vars>>

regularized_probability_of_converting ==
    /\ d_pc = "call"
    /\ d_fn = "BGBBBGExtFitter.static_regularized_expected_probability_of_converting_at_time"
    /\ d_ret' = Return(static_regularized_expected_probability_of_converting_at_time(
                            d_args.ps, d_args.c0, d_args.t.k))
    /\ d_pc' = "done"
    /\ UNCHANGED <<d_fn, d_args>>
    /\ UNCHANGED <<nll_vars, fit_vars, gof_vars, split_vars, par_vars>>

FnNext ==
    \/ regularized_probability_of_converting
    \/ alive_matrix
    \/ log_A_0
    \/ probability_of_n
    \/ expected_number
    \/ expected_number_error
    \/ negative_log_likelihood

SpecFn == FnInit /\ [][FnNext]_vars

\* C15: on the discrete-time families, P(N(t) = n) raises a validation error
\* for every t or n that is no integer, before any probability is computed.
C15_NonIntegerRejected ==
    (/\ d_pc = "done"
     /\ d_fn \in ProbabilityFns
     /\ d_args.t.t # "int" \/ d_args.n.t # "int") => d_ret = Raise("TypeError")

\* C15 witness: the distribution of the BG model, called with an integer t
\* and n = 0.5, has raised.
C15_Witness ==
    /\ d_pc = "done"
    /\ d_fn = "BGFitter.static_probability_of_n_purchases_up_to_time"
    /\ d_args.t = PyInt(MaxT)
    /\ d_args.n = PyFloat(<<1, 2>>)
    /\ d_ret = Raise("TypeError")

\* C16: E(0) = 0 for every model's expected-number-of-purchases function, at
\* every positive parameter vector.
C16_ExpectedAtZeroIsZero ==
    (d_pc = "done" /\ d_fn \in ExpectedFns /\ d_args.t = PyInt(0)) => d_ret = Return(<<0, 1>>)

\* C20: the error function returns sqrt(g^T C g), g being the gradient of the
\* model's E in its parameters, in the order of the rows and columns of C.
C20_ErrorIsDeltaMethod ==
    (d_pc = "done" /\ d_fn \in ErrorFns /\ d_ret.kind = "return") =>
        d_ret.val = [t |-> "sqrt",
                     of |-> quadratic_form([i \in 1..4 |-> BGBB_E(d_args.ps, d_args.t.k, i)[2]],
                                           d_args.C)]

\* C22: on a single history <<x, tx, T>> the BG/BB evaluator returns the same
\* objective whether the history is given as numbers or as vectors of length
\* 1, in the plain and in the gradient mode; at positive parameters and
\* without weights the likelihood of the row is the base term plus the sum
\* of the T - tx terms of index i = 0 .. T - tx - 1.
C22_ScalarPathMatchesVectorPath ==
    (d_pc = "done" /\ d_fn = "BGBBFitter._negative_log_likelihood") =>
        LET A == d_args
            x == A.row[1]
            tx == A.row[2]
            T == A.row[3]
            ps == A.ps
            base == RMul(BetaInt(ps[1] + x, ps[2] + T - x), BetaInt(ps[3], ps[4] + T))
            Term(i) == RMul(BetaInt(ps[1] + x, ps[2] + tx - x + i),
                            BetaInt(ps[3] + 1, ps[4] + tx + i))
            Lj == RDiv(RAdd(base, RSum([k \in 1..(T - tx) |-> Term(k - 1)])),
                       RMul(BetaInt(ps[1], ps[2]), BetaInt(ps[3], ps[4])))
        IN  /\ d_ret = Return(BGBB_negative_log_likelihood(ps, <<A.row>>, A.coef, A.N, A.jac))
            /\ d_ret = Return(BGBB_scalar_negative_log_likelihood(ps, x, tx, T,
                                                                  A.coef, A.N, A.jac))
            /\ (AllPositive(ps) /\ ~A.N.given /\ A.jac) => d_ret.val = ENeg(ELog(Lj))

\* C22 witness: the evaluator has returned a finite objective on a history
\* given as numbers, of recency two steps or more before its age.
C22_Witness ==
    /\ d_pc = "done"
    /\ d_fn = "BGBBFitter._negative_log_likelihood"
    /\ d_args.scalar
    /\ d_args.row[3] - d_args.row[2] >= 2
    /\ d_ret.val.k = "fin"

\* C23: on a single history <<frequency, T>> the BG evaluator returns the same
\* objective whether the history is given as numbers or as vectors of length
\* 1, for all non-negative integers frequency and T.
C23_ScalarPathMatchesVectorPath ==
    (d_pc = "done" /\ d_fn = "BGFitter._negative_log_likelihood") =>
        LET A == d_args
        IN  /\ d_ret = Return(BG_negative_log_likelihood(A.ps, <<A.row>>, A.coef, A.N))
            /\ d_ret = Return(BG_scalar_negative_log_likelihood(A.ps, A.row[1], A.row[2],
                                                                A.coef, A.N))

\* C24: in _log_A_0, at positive alpha and beta and non-negative recency and
\* age, the argument of each Gauss hypergeometric function is
\* (max(alpha, beta) - min(alpha, beta)) / (max(alpha, beta) + t), t the
\* recency in the first call and the age in the second, and lies in [0, 1);
\* the second parameter is r + frequency when alpha < beta, s + 1 otherwise.
C24_HypergeometricArgument ==
    (d_pc = "done" /\ d_fn = "ParetoNBDFitter._log_A_0") =>
        LET ps == d_args.ps
            hi == IF ps[2] >= ps[4] THEN ps[2] ELSE ps[4]
            lo == IF ps[2] >= ps[4] THEN ps[4] ELSE ps[2]
        IN  \A k \in 1..2 :
                LET call == d_ret.val[k]
                    z == call[4]
                IN  /\ z = Rat(hi - lo, hi + d_args.row[k + 1])
                    /\ 0 <= z[1] /\ z[1] < z[2]
                    /\ call[2] = IF ps[2] < ps[4] THEN ps[1] + d_args.row[1] ELSE ps[3] + 1
                    /\ call[1] = ps[1] + ps[3] + d_args.row[1]
                    /\ call[3] = call[1] + 1

\* C24 witness: _log_A_0 has returned at alpha > beta, where the argument is
\* positive, with a recency smaller than the age.
C24_Witness ==
    /\ d_pc = "done"
    /\ d_fn = "ParetoNBDFitter._log_A_0"
    /\ d_args.ps[2] > d_args.ps[4]
    /\ d_args.row[2] < d_args.row[3]
    /\ d_ret.val[1][4][1] > 0
    /\ d_ret.val[1][2] = d_args.ps[3] + 1

\* C27: the matrix has max_recency + 1 rows and max_frequency + 1 columns, its
\* cell [i][j] the alive probability of frequency j, recency i and age
\* max_recency; max_frequency and max_recency are the values supplied,
\* whatever non-negative integers they are, and the observed maxima only when
\* the argument is omitted.
C27_MatrixBoundsAsSupplied ==
    (d_pc = "done" /\ d_fn = "conditional_probability_alive_matrix") =>
        LET A == d_args
            mf == IF A.max_frequency = PyNone THEN ColumnMax(A.data, 1) ELSE A.max_frequency.k
            mr == IF A.max_recency = PyNone THEN ColumnMax(A.data, 3) ELSE A.max_recency.k
            Z == d_ret.val
        IN  /\ Len(Z) = mr + 1
            /\ \A i \in 0..mr :
                  /\ Len(Z[i + 1]) = mf + 1
                  /\ \A j \in 0..mf : Z[i + 1][j + 1] = <<A.cls, j, i, mr>>

\* C29: for the BG model, at every integer t >= 0 and positive (alpha, beta)
\* the values P(N(t) = n) for n = 0 .. t sum to 1 (so that P(N(0) = 0) = 1),
\* and the call raises ValueError for n > t.
C29_MassSumsToOne ==
    (/\ d_pc = "done"
     /\ d_fn = "BGFitter.static_probability_of_n_purchases_up_to_time"
     /\ BothInt(d_args.t, d_args.n)) =>
        IF d_args.n.k > d_args.t.k
        THEN d_ret = Raise("ValueError")
        ELSE /\ d_ret = BG_probability_of_n(d_args.ps, d_args.t, d_args.n)
             /\ RSum([m \in 1..(d_args.t.k + 1) |->
                        BG_probability_of_n(d_args.ps, d_args.t, PyInt(m - 1)).val]) = <<1, 1>>

store_OnClass(cl, inst, k, obj) ==
    << [a \in DOMAIN cl \cup DOMAIN obj |-> IF a \in DOMAIN obj THEN obj[a] ELSE cl[a]], inst >>
store(cl, inst, k, obj) == << cl, [inst EXCEPT ![k] = obj] >>

ParInit ==
    /\ p_class = ClassAttrs
    /\ \E c \in [1..2 -> {"BetaGeo", "BG"}] :
          /\ p_inst = [k \in 1..2 |-> Construct(c[k], 0)]
          /\ p_frame = [k \in 1..2 |-> [op |-> "none", cls |-> c[k]]]
    /\ p_pc = [k \in 1..2 |-> "idle"]
    /\ NoEvaluation /\ NoFitter /\ NoValidation /\ NoSplit /\ NoFunction

\* instance k: fit is called, the validation passes, _fit is called
par_fit_calls_fit(k) ==
    LET c == p_frame[k].cls
    IN  \E data \in FitData[c], sc \in (IF c \in ScaledClasses THEN 1..MaxScale ELSE {1}) :
            LET self1 == IF c \in ScaledClasses
                         THEN setattr(p_inst[k], "_scale", PyFloat(<<sc, 1>>))
                         ELSE p_inst[k]
                w == store(p_class, p_inst, k, self1)
            IN  /\ p_pc[k] = "idle"
                /\ ~FitRaises(c, data, NoWeights)
                /\ p_class' = w[1]
                /\ p_inst' = w[2]
                /\ p_frame' = [p_frame EXCEPT ![k] = [op |-> "fit", cls |-> c, data |-> data,
                                                      N |-> NoWeights, self1 |-> self1]]
                /\ p_pc' = [p_pc EXCEPT ![k] = "_fit"]
                /\ UNCHANGED <<nll_vars, fit_vars, gof_vars, split_vars, fn_vars>>

\* instance k: _fit returns, fit assigns the attributes and returns
par_fit_returns(k) ==
    \E v \in 1..MaxParam :
        LET c == p_frame[k].cls
            f == p_frame[k]
            ps == [i \in 1..NumParams(c) |-> <<v, 1>>]
            w == store(p_class, p_inst, k,
                       FitAssign(c, p_inst[k], f.data, f.N, gen_t(c, f.data, f.N), ps))
        IN  /\ p_pc[k] = "_fit"
            /\ p_class' = w[1]
            /\ p_inst' = w[2]
            /\ p_frame' = [p_frame EXCEPT ![k] = [op |-> "fit", cls |-> c, data |-> f.data,
                                                  N |-> f.N, self1 |-> f.self1, ps |-> ps]]
            /\ p_pc' = [p_pc EXCEPT ![k] = "returned"]
            /\ UNCHANGED <<nll_vars, fit_vars, gof_vars, split_vars, fn_vars>>

ParNext == \E k \in 1..2 : par_fit_calls_fit(k) \/ par_fit_returns(k)

SpecPar == ParInit /\ [][ParNext]_vars

\* C17: however the fit calls of two instances interleave, an instance whose
\* fit has returned holds the parameters, the objective and the data of its
\* own fit; an instance whose fit has not been called is as constructed, also
\* when its attributes are looked up through the class; and the attributes of
\* the class BaseFitter are never written.
C17_FitsAreIndependent ==
    /\ p_class = ClassAttrs
    /\ \A k \in DOMAIN p_pc :
          LET f == p_frame[k]
          IN  /\ p_pc[k] = "idle" =>
                    /\ p_inst[k] = Construct(f.cls, 0)
                    /\ \A a \in DOMAIN p_class : a \notin DOMAIN p_inst[k] => p_class[a] = PyNone
              /\ p_pc[k] = "_fit" => p_inst[k] = f.self1
              /\ p_pc[k] = "returned" =>
                    p_inst[k] = FitAssign(f.cls, f.self1, f.data, f.N,
                                          gen_t(f.cls, f.data, f.N), f.ps)

\* C17 witness: both fits have returned, the second one called before the
\* first returned, with different data and different parameters.
C17_Witness ==
    /\ p_pc = [k \in 1..2 |-> "returned"]
    /\ p_frame[1].cls = p_frame[2].cls
    /\ p_frame[1].data # p_frame[2].data
    /\ p_inst[1].params_ # p_inst[2].params_
    /\ p_inst[1].data # p_inst[2].data

====
